---- MODULE Spec2Model ----
(***************************************************************************)
(* Verification model of hogsync: the validation module                    *)
(* (src/validation.ts) with the path guard (validatePath), the flag schema *)
(* validator (validateFlagSchema) and the size guard (validateFileSize),   *)
(* and the commands that load flag files through them (generateFlags,      *)
(* syncFlags, the CLI's validate command).                                 *)
(*                                                                         *)
(* A JavaScript string is a sequence of one-character strings; the NUL     *)
(* character is written "NUL".  Path algebra is that of node:path on a     *)
(* POSIX host: "/" is the only separator and "\\" is an ordinary character. *)
(***************************************************************************)
EXTENDS Integers, Sequences, FiniteSets, TLC

VARIABLES
    pc,          \* position of the caller, or the statement a command is at
    filePath,    \* validatePath, validateFileSize: the filePath argument
    basePath,    \* validatePath: the basePath argument
    pathResult,  \* validatePath: what the last call returned or threw
    prevResult,  \* validatePath: what the call before the last returned
    flagData,    \* validateFlagSchema: the flagData argument
    fileName,    \* validateFlagSchema: the optional fileName argument
    flagResult,  \* validateFlagSchema: what the call returned or threw
    bunFile,     \* validateFileSize: what the file system holds at filePath
    maxSizeBytes,\* validateFileSize: the optional maxSizeBytes argument
    sizeResult,  \* validateFileSize: how the returned promise settled
    command,     \* the call under way: a library function or a CLI command
    cli,         \* TRUE when the call was started by the CLI's main()
    configPath,  \* the --config argument, or the argument of loadConfig
    config,      \* the Config the command works on
    env,         \* loadConfig: the POSTHOG_ variables of process.env it read
    userConfig,  \* loadConfig: what the config file exported
    safeFlagsDir,   \* flagsDir as the path guard returned it
    files,       \* what the scan of the flags directory found, in order
    index,       \* the position in files of the file the loop is at
    json,        \* the parsed content of the file the loop is at
    keys,        \* generateFlags: the keys collected so far
    flagConfigs, \* generateFlags: the flags collected so far
    allFlags,    \* syncFlags: the flags fetched from PostHog, each with id and key
    requests,    \* syncFlags: the create and update requests sent, in order
    hasErrors,   \* handleValidate: whether a file has failed
    io,          \* what the command has done so far, in order
    written,     \* generateFlags: the content written to the output file
    hook,        \* createUseFeatureFlagEnabled: the hook it returned and its calls
    ret          \* where a call of a guard goes on when it returns or throws

pathVars == <<filePath, basePath, pathResult, prevResult>>

flagVars == <<flagData, fileName, flagResult>>

sizeVars == <<bunFile, maxSizeBytes, sizeResult>>

callVars == <<pathVars, flagVars, sizeVars>>

configVars == <<configPath, config, env, userConfig>>

dirVars == <<safeFlagsDir, files>>

loopVars == <<index, json>>

genVars == <<keys, flagConfigs, written>>

remoteVars == <<allFlags, requests>>

hookVars == <<hook>>

pipeVars ==
    <<command, cli, configVars, dirVars, loopVars, genVars, remoteVars, hasErrors, io,
      ret, hookVars>>

vars == <<pc, pathVars, flagVars, sizeVars, pipeVars>>

(***************************************************************************)
(* Bounds of the model.                                                    *)
(***************************************************************************)
MaxPathLen == 5

MaxKeyLen == 3

MaxItems == 3

MaxFileSize == 4

MaxFiles == 2

\* how many validations one run of the repeated validator makes
MaxCalls == 3

(***************************************************************************)
(* String helpers (String.prototype methods used by the code).             *)
(***************************************************************************)
Min(S) == CHOOSE x \in S : \A y \in S : x <= y

Max(S) == CHOOSE x \in S : \A y \in S : x >= y

\* s.startsWith(p)
StartsWith(s, p) == Len(s) >= Len(p) /\ SubSeq(s, 1, Len(p)) = p

\* s.includes(c) for a single character c
Includes(s, c) == \E i \in 1..Len(s) : s[i] = c

\* s.slice(k) with a 0-based start index k
SliceFrom(s, k) == SubSeq(s, k + 1, Len(s))

\* s.charAt(k) with a 0-based index k
CharAt(s, k) == s[k + 1]

RECURSIVE SplitFrom(_, _, _)
SplitFrom(s, i, cur) ==
    IF i > Len(s) THEN <<cur>>
    ELSE IF s[i] = "/" THEN <<cur>> \o SplitFrom(s, i + 1, <<>>)
    ELSE SplitFrom(s, i + 1, Append(cur, s[i]))

\* the "/"-separated segments of s, empty ones included
Segments(s) == SplitFrom(s, 1, <<>>)

RECURSIVE JoinSegments(_)
JoinSegments(segs) ==
    IF Len(segs) = 0 THEN <<>>
    ELSE IF Len(segs) = 1 THEN segs[1]
    ELSE segs[1] \o <<"/">> \o JoinSegments(Tail(segs))

(***************************************************************************)
(* node:path (posix).                                                      *)
(***************************************************************************)
\* process.cwd(): the working directory of the process, an absolute path
Cwd == <<"/", "a">>

RECURSIVE NormalizeSegments(_, _, _)
NormalizeSegments(segs, res, allowAboveRoot) ==
    IF Len(segs) = 0 THEN res
    ELSE LET seg == Head(segs)
             rest == Tail(segs)
         IN  IF seg = <<>> \/ seg = <<".">>
             THEN NormalizeSegments(rest, res, allowAboveRoot)
             ELSE IF seg = <<".", ".">>
             THEN IF Len(res) > 0 /\ res[Len(res)] # <<".", ".">>
                  THEN NormalizeSegments(rest, SubSeq(res, 1, Len(res) - 1), allowAboveRoot)
                  ELSE IF allowAboveRoot
                  THEN NormalizeSegments(rest, Append(res, seg), allowAboveRoot)
                  ELSE NormalizeSegments(rest, res, allowAboveRoot)
             ELSE NormalizeSegments(rest, Append(res, seg), allowAboveRoot)

\* normalizeString(path, allowAboveRoot): resolves "." and ".." segments and
\* drops empty ones; the result has no leading and no trailing separator
normalizeString(path, allowAboveRoot) ==
    JoinSegments(NormalizeSegments(Segments(path), <<>>, allowAboveRoot))

\* path.normalize(path)
normalize(path) ==
    IF Len(path) = 0 THEN <<".">>
    ELSE LET isAbsolute == path[1] = "/"
             trailingSeparator == path[Len(path)] = "/"
             p == normalizeString(path, ~isAbsolute)
         IN  IF Len(p) = 0
             THEN IF isAbsolute THEN <<"/">>
                  ELSE IF trailingSeparator THEN <<".", "/">> ELSE <<".">>
             ELSE LET q == IF trailingSeparator THEN p \o <<"/">> ELSE p
                  IN  IF isAbsolute THEN <<"/">> \o q ELSE q

RECURSIVE ResolveLoop(_, _, _, _)
\* the right-to-left loop of path.resolve: i runs from the last argument
\* down to 0, where the working directory is used
ResolveLoop(args, i, resolvedPath, resolvedAbsolute) ==
    IF i < 0 \/ resolvedAbsolute
    THEN [path |-> resolvedPath, absolute |-> resolvedAbsolute]
    ELSE LET p == IF i >= 1 THEN args[i] ELSE Cwd
         IN  IF Len(p) = 0
             THEN ResolveLoop(args, i - 1, resolvedPath, resolvedAbsolute)
             ELSE ResolveLoop(args, i - 1, p \o <<"/">> \o resolvedPath, p[1] = "/")

\* path.resolve(...args)
resolve(args) ==
    LET r == ResolveLoop(args, Len(args), <<>>, FALSE)
        p == normalizeString(r.path, ~r.absolute)
    IN  IF r.absolute THEN <<"/">> \o p
        ELSE IF Len(p) > 0 THEN p ELSE <<".">>

RECURSIVE DotDots(_)
DotDots(n) ==
    IF n = 0 THEN <<>>
    ELSE IF n = 1 THEN <<".", ".">>
    ELSE <<".", ".">> \o <<"/">> \o DotDots(n - 1)

\* path.relative(from, to), character by character as the library computes it
relative(from0, to0) ==
    IF from0 = to0 THEN <<>>
    ELSE
    LET from == resolve(<<from0>>)
        to == resolve(<<to0>>)
    IN  IF from = to THEN <<>>
        ELSE
        LET fromStart == 1
            fromEnd == Len(from)
            fromLen == fromEnd - fromStart
            toStart == 1
            toLen == Len(to) - toStart
            length == IF fromLen < toLen THEN fromLen ELSE toLen
            mismatch == {i \in 0..(length - 1) :
                            CharAt(from, fromStart + i) # CharAt(to, toStart + i)}
            iEnd == IF mismatch = {} THEN length ELSE Min(mismatch)
            seps == {i \in 0..(iEnd - 1) : CharAt(from, fromStart + i) = "/"}
            sepInLoop == IF seps = {} THEN -1 ELSE Max(seps)
            toIsBelowFrom ==
                iEnd = length /\ toLen > length /\ CharAt(to, toStart + iEnd) = "/"
            fromIsRoot ==
                iEnd = length /\ toLen > length /\ iEnd = 0
            lastCommonSep ==
                IF iEnd = length /\ ~(toLen > length) /\ fromLen > length
                THEN IF CharAt(from, fromStart + iEnd) = "/" THEN iEnd
                     ELSE IF iEnd = 0 THEN 0 ELSE sepInLoop
                ELSE sepInLoop
            ups == Cardinality({i \in (fromStart + lastCommonSep + 1)..fromEnd :
                                   i = fromEnd \/ CharAt(from, i) = "/"})
        IN  IF toIsBelowFrom THEN SliceFrom(to, toStart + iEnd + 1)
            ELSE IF fromIsRoot THEN SliceFrom(to, toStart + iEnd)
            ELSE DotDots(ups) \o SliceFrom(to, toStart + lastCommonSep)

(***************************************************************************)
(* JavaScript values handed to validatePath: a string, or a non-string.    *)
(***************************************************************************)
JsString(chars) == [type |-> "string", chars |-> chars]

NonStrings ==
    { [type |-> "null", chars |-> <<>>],
      [type |-> "number", chars |-> <<>>],
      [type |-> "object", chars |-> <<>>] }

\* !filePath: null and the empty string are falsy (the model's number and
\* object are truthy)
IsFalsy(v) == v.type = "null" \/ (v.type = "string" /\ v.chars = <<>>)

(***************************************************************************)
(* validatePath.                                                           *)
(***************************************************************************)
InvalidPathMessage == "Invalid file path: path must be a non-empty string"

PathTraversalMessage ==
    "Path traversal detected: file path must be within the base directory"

NullByteMessage == "Invalid file path: null bytes not allowed"

Thrown(message) == [ok |-> FALSE, message |-> message, path |-> <<>>]

Returned(path) == [ok |-> TRUE, message |-> "", path |-> path]

\* the guard of the first throw
IsInvalidPathArgument(v) == IsFalsy(v) \/ v.type # "string"

\* s.includes(sub) for a substring sub
ContainsSub(s, sub) ==
    \E i \in 1..(Len(s) - Len(sub) + 1) : SubSeq(s, i, i + Len(sub) - 1) = sub

\* mutant: path.join(basePath, normalizedPath) in place of path.resolve, so
\* that an absolute file path is appended to the base instead of replacing it
ResolvedPath_Join(base, normalizedPath) ==
    normalize(base \o <<"/">> \o normalizedPath)

\* resolve(basePath, normalizedPath)
ResolvedPath(base, normalizedPath) == resolve(<<base, normalizedPath>>)

\* mutant: containment decided by a string prefix of the resolved path
TraversalDetected_StringPrefix(relativePath, resolvedBase, resolvedPath) ==
    ~StartsWith(resolvedPath, resolvedBase)

\* mutant: the parent marker is looked for with its separator, '../'
TraversalDetected_DotDotSlash(relativePath, resolvedBase, resolvedPath) ==
    \/ StartsWith(relativePath, <<".", ".", "/">>)
    \/ resolve(<<resolvedBase, relativePath>>) # resolvedPath

\* the containment test
TraversalDetected(relativePath, resolvedBase, resolvedPath) ==
    \/ StartsWith(relativePath, <<".", ".">>)
    \/ resolve(<<resolvedBase, relativePath>>) # resolvedPath

\* normalizedPath.includes('\0')
HasNullByte(normalizedPath) == Includes(normalizedPath, "NUL")

validatePath(v, base) ==
    IF IsInvalidPathArgument(v) THEN Thrown(InvalidPathMessage)
    ELSE
    LET normalizedPath == normalize(v.chars)
        resolvedPath == ResolvedPath(base, normalizedPath)
        resolvedBase == resolve(<<base>>)
        relativePath == relative(resolvedBase, resolvedPath)
    IN  IF TraversalDetected(relativePath, resolvedBase, resolvedPath)
        THEN Thrown(PathTraversalMessage)
        ELSE IF HasNullByte(normalizedPath)
        THEN Thrown(NullByteMessage)
        ELSE Returned(resolvedPath)

\* validateDirectoryPath delegates to validatePath
validateDirectoryPath(v, base) == validatePath(v, base)


(***************************************************************************)
(* JSON / JavaScript values handed to the schema validator: a pair of the  *)
(* kind of the value and what it holds.  An object holds the sequence of   *)
(* its own enumerable entries <<name, value>>, in insertion order (the     *)
(* order of Object.entries).                                               *)
(***************************************************************************)
Str(chars) == <<"string", chars>>

Num(n) == <<"number", n>>

Bool(b) == <<"boolean", b>>

JNull == <<"null", 0>>

Undefined == <<"undefined", 0>>

Arr(items) == <<"array", items>>

Obj(entries) == <<"object", entries>>

\* the kind of a value and what it holds
Kind(value) == value[1]

Payload(value) == value[2]

\* typeof value
TypeOf(value) ==
    IF Kind(value) \in {"null", "array", "object"} THEN "object" ELSE Kind(value)

\* Array.isArray(value)
IsArray(value) == Kind(value) = "array"

\* Object.entries(value) of an object or an array
Entries(value) ==
    IF Kind(value) = "array"
    THEN [i \in 1..Len(Payload(value)) |-> <<ToString(i - 1), Payload(value)[i]>>]
    ELSE Payload(value)

\* field in obj
HasOwn(obj, field) ==
    \E i \in 1..Len(Entries(obj)) : Entries(obj)[i][1] = field

\* obj[field]: undefined when the object has no such entry
Get(obj, field) ==
    IF HasOwn(obj, field)
    THEN LET i == CHOOSE j \in 1..Len(Entries(obj)) : Entries(obj)[j][1] = field
         IN  Entries(obj)[i][2]
    ELSE Undefined

(***************************************************************************)
(* FLAG_SCHEMA.  A schema node is a record of the keywords the validator   *)
(* reads; an absent keyword (undefined) is "", 0 or the empty sequence,    *)
(* a present one a string, a positive number or a one-element sequence.    *)
(***************************************************************************)
NoKeywords ==
    [ type |-> "", pattern |-> "", minLength |-> 0, maxLength |-> 0,
      minimum |-> <<>>, maximum |-> <<>>, items |-> <<>>, properties |-> <<>>,
      enum |-> <<>>, required |-> <<>>, oneOf |-> <<>>, description |-> "",
      additionalProperties |-> <<>> ]

Schema(keywords) == keywords @@ NoKeywords

KeyPattern == "^[a-z0-9][a-z0-9-]*[a-z0-9]$|^[a-z0-9]$"

RolloutPercentageSchema ==
    Schema([type |-> "number", minimum |-> <<0>>, maximum |-> <<100>>])

VariantItemSchema ==
    Schema([ type |-> "object",
             required |-> <<"key", "rollout_percentage">>,
             properties |-> <<[
                 key |-> Schema([type |-> "string", minLength |-> 1]),
                 name |-> Schema([type |-> "string"]),
                 rollout_percentage |-> RolloutPercentageSchema ]>> ])

GroupPropertySchema ==
    Schema([ type |-> "object",
             required |-> <<"key", "value">>,
             properties |-> <<[
                 key |-> Schema([type |-> "string", minLength |-> 1]),
                 value |-> Schema([oneOf |-> <<"string", "number", "boolean", "array">>]),
                 operator |-> Schema([type |-> "string"]),
                 type |-> Schema([ type |-> "string",
                                   enum |-> <<"person", "event", "group">> ]) ]>> ])

GroupSchema ==
    Schema([ type |-> "object",
             properties |-> <<[
                 properties |-> Schema([type |-> "array", items |-> <<GroupPropertySchema>>]),
                 rollout_percentage |-> RolloutPercentageSchema,
                 variant |-> Schema([type |-> "string"]) ]>> ])

FiltersSchema ==
    Schema([ type |-> "object",
             properties |-> <<[
                 groups |-> Schema([type |-> "array", items |-> <<GroupSchema>>]),
                 multivariate |-> Schema([ type |-> "object",
                     properties |-> <<[
                         variants |-> Schema([ type |-> "array",
                                               items |-> <<VariantItemSchema>> ]) ]>> ]),
                 payloads |-> Schema([type |-> "object"]) ]>> ])

FLAG_SCHEMA ==
    Schema([ type |-> "object",
             required |-> <<"key", "name", "active">>,
             properties |-> <<[
                 key |-> Schema([ type |-> "string",
                                  pattern |-> KeyPattern,
                                  minLength |-> 1,
                                  maxLength |-> 100,
                                  description |->
    "Flag key must be lowercase alphanumeric with hyphens, no leading/trailing hyphens" ]),
                 name |-> Schema([ type |-> "string", minLength |-> 1, maxLength |-> 200,
                                   description |-> "Flag name must be a non-empty string" ]),
                 active |-> Schema([ type |-> "boolean",
                                     description |-> "Flag active status must be a boolean" ]),
                 description |-> Schema([ type |-> "string", maxLength |-> 1000,
                     description |-> "Optional description with reasonable length limit" ]),
                 filters |-> FiltersSchema,
                 ensure_experience_continues |-> Schema([type |-> "boolean"]),
                 variants |-> Schema([type |-> "array", items |-> <<VariantItemSchema>>]) ]>>,
             additionalProperties |-> <<FALSE>> ])

\* names every object literal inherits from Object.prototype: a lookup
\* properties[name] of such a name yields a value that is not undefined
ObjectPrototypeNames ==
    { "constructor", "toString", "toLocaleString", "valueOf", "hasOwnProperty",
      "isPrototypeOf", "propertyIsEnumerable", "__proto__" }

\* properties[name]: <<>> when undefined, else the one value found.  An
\* inherited member has none of the keywords the validator reads.
LookupProperty(properties, name) ==
    IF name \in DOMAIN properties THEN <<properties[name]>>
    ELSE IF name \in ObjectPrototypeNames THEN <<NoKeywords>>
    ELSE <<>>

(***************************************************************************)
(* Regular expressions: new RegExp(pattern).test(value).                   *)
(***************************************************************************)
\* the character class [a-z0-9]
LowerAlnum ==
    { "a", "b", "c", "d", "e", "f", "g", "h", "i", "j", "k", "l", "m", "n", "o",
      "p", "q", "r", "s", "t", "u", "v", "w", "x", "y", "z",
      "0", "1", "2", "3", "4", "5", "6", "7", "8", "9" }

\* ^[a-z0-9][a-z0-9-]*[a-z0-9]$
MatchesHyphenated(s) ==
    /\ Len(s) >= 2
    /\ s[1] \in LowerAlnum
    /\ s[Len(s)] \in LowerAlnum
    /\ \A i \in 2..(Len(s) - 1) : s[i] \in LowerAlnum \cup {"-"}

\* ^[a-z0-9]$
MatchesSingle(s) == Len(s) = 1 /\ s[1] \in LowerAlnum

\* mutant: the pattern without its second alternative, ^[a-z0-9]$
RegExpTest_NoSingle(pattern, s) ==
    IF pattern = KeyPattern THEN MatchesHyphenated(s) ELSE TRUE

\* mutant: the pattern without its anchors, [a-z0-9][a-z0-9-]*[a-z0-9]|[a-z0-9]
RegExpTest_Unanchored(pattern, s) ==
    IF pattern = KeyPattern THEN \E i \in 1..Len(s) : s[i] \in LowerAlnum ELSE TRUE

RegExpTest(pattern, s) ==
    IF pattern = KeyPattern THEN MatchesHyphenated(s) \/ MatchesSingle(s)
    ELSE TRUE

(***************************************************************************)
(* validateProperty, validateSchema, validateFlagSchema.  An error string  *)
(* is kept as the two parts the code interpolates: `${subject} ${text}`    *)
(* (form "subject text") or `${text}: ${subject}` (form "text: subject").  *)
(***************************************************************************)
PropertyError(propertyName, text) ==
    [form |-> "subject text", subject |-> propertyName, text |-> text]

LabelledError(text, subject) ==
    [form |-> "text: subject", subject |-> subject, text |-> text]

RECURSIVE JoinComma(_)
\* enum.join(', ')
JoinComma(names) ==
    IF Len(names) = 0 THEN ""
    ELSE IF Len(names) = 1 THEN names[1]
    ELSE names[1] \o ", " \o JoinComma(Tail(names))

\* the JavaScript string of an enum member, as a character sequence
EnumChars(name) ==
    CASE name = "person" -> <<"p", "e", "r", "s", "o", "n">>
      [] name = "event" -> <<"e", "v", "e", "n", "t">>
      [] name = "group" -> <<"g", "r", "o", "u", "p">>

\* schema.enum.includes(value)
EnumIncludes(enum, value) ==
    Kind(value) = "string" /\ \E i \in 1..Len(enum) : EnumChars(enum[i]) = Payload(value)

\* the type validation: the text of the error it pushes before returning,
\* or <<>> when the value has the declared type
TypeErrors(value, schema) ==
    IF schema.type = "" THEN <<>>
    ELSE IF schema.type = "string" /\ TypeOf(value) # "string"
    THEN <<"must be a string">>
    ELSE IF schema.type = "number" /\ TypeOf(value) # "number"
    THEN <<"must be a number">>
    ELSE IF schema.type = "boolean" /\ TypeOf(value) # "boolean"
    THEN <<"must be a boolean">>
    ELSE IF schema.type = "array" /\ ~IsArray(value)
    THEN <<"must be an array">>
    ELSE IF /\ schema.type = "object"
            /\ (TypeOf(value) # "object" \/ Kind(value) = "null" \/ IsArray(value))
    THEN <<"must be an object">>
    ELSE <<>>

\* the string validations
StringErrors(value, schema, propertyName) ==
    IF TypeOf(value) # "string" THEN <<>>
    ELSE
      (IF schema.minLength # 0 /\ Len(Payload(value)) < schema.minLength
       THEN <<PropertyError(propertyName,
                "must be at least " \o ToString(schema.minLength) \o " characters long")>>
       ELSE <<>>)
      \o
      (IF schema.maxLength # 0 /\ Len(Payload(value)) > schema.maxLength
       THEN <<PropertyError(propertyName,
                "must be no more than " \o ToString(schema.maxLength) \o " characters long")>>
       ELSE <<>>)
      \o
      (IF schema.pattern # "" /\ ~RegExpTest(schema.pattern, Payload(value))
       THEN <<PropertyError(propertyName,
                "format is invalid: " \o
                (IF schema.description # "" THEN schema.description
                 ELSE "must match pattern"))>>
       ELSE <<>>)

\* the number validations
NumberErrors(value, schema, propertyName) ==
    IF TypeOf(value) # "number" THEN <<>>
    ELSE
      (IF schema.minimum # <<>> /\ Payload(value) < schema.minimum[1]
       THEN <<PropertyError(propertyName,
                "must be at least " \o ToString(schema.minimum[1]))>>
       ELSE <<>>)
      \o
      (IF schema.maximum # <<>> /\ Payload(value) > schema.maximum[1]
       THEN <<PropertyError(propertyName,
                "must be no more than " \o ToString(schema.maximum[1]))>>
       ELSE <<>>)

\* the enum validation
EnumErrors(value, schema, propertyName) ==
    IF schema.enum # <<>> /\ ~EnumIncludes(schema.enum, value)
    THEN <<PropertyError(propertyName, "must be one of: " \o JoinComma(schema.enum))>>
    ELSE <<>>

RECURSIVE validateProperty(_, _, _)
RECURSIVE ItemErrors(_, _, _, _)
RECURSIVE EntryErrors(_, _, _, _)

RECURSIVE ItemErrors_OneBased(_, _, _, _)
\* mutant: the index is printed 1-based
ItemErrors_OneBased(items, itemSchema, propertyName, i) ==
    IF i > Len(items) THEN <<>>
    ELSE validateProperty(items[i], itemSchema,
                          propertyName \o "[" \o ToString(i) \o "]")
         \o ItemErrors_OneBased(items, itemSchema, propertyName, i + 1)

\* the array validations: the loop over the elements, from index i (1-based
\* here, printed 0-based)
ItemErrors(items, itemSchema, propertyName, i) ==
    IF i > Len(items) THEN <<>>
    ELSE validateProperty(items[i], itemSchema,
                          propertyName \o "[" \o ToString(i - 1) \o "]")
         \o ItemErrors(items, itemSchema, propertyName, i + 1)

\* mutant: an entry the nested schema does not declare is reported, as it is
\* at the top level
EntryErrors_Strict(entries, properties, propertyName, i) ==
    IF i > Len(entries) THEN <<>>
    ELSE LET key == entries[i][1]
             val == entries[i][2]
             propSchema == LookupProperty(properties, key)
         IN  (IF propSchema # <<>>
              THEN validateProperty(val, propSchema[1], propertyName \o "." \o key)
              ELSE <<LabelledError("Unknown property", propertyName \o "." \o key)>>)
             \o EntryErrors(entries, properties, propertyName, i + 1)

\* the object validations: the loop over the entries, from entry i
EntryErrors(entries, properties, propertyName, i) ==
    IF i > Len(entries) THEN <<>>
    ELSE LET key == entries[i][1]
             val == entries[i][2]
             propSchema == LookupProperty(properties, key)
         IN  (IF propSchema # <<>>
              THEN validateProperty(val, propSchema[1], propertyName \o "." \o key)
              ELSE <<>>)
             \o EntryErrors(entries, properties, propertyName, i + 1)

\* mutant: the type validation pushes its error and goes on
validateProperty_NoReturn(value, schema, propertyName) ==
    (IF TypeErrors(value, schema) # <<>>
     THEN <<PropertyError(propertyName, TypeErrors(value, schema)[1])>>
     ELSE <<>>)
    \o StringErrors(value, schema, propertyName)
    \o NumberErrors(value, schema, propertyName)
    \o (IF IsArray(value) /\ schema.items # <<>>
        THEN ItemErrors(Payload(value), schema.items[1], propertyName, 1)
        ELSE <<>>)
    \o (IF Kind(value) = "object" /\ schema.properties # <<>>
        THEN EntryErrors(Payload(value), schema.properties[1], propertyName, 1)
        ELSE <<>>)
    \o EnumErrors(value, schema, propertyName)

validateProperty(value, schema, propertyName) ==
    IF TypeErrors(value, schema) # <<>>
    THEN <<PropertyError(propertyName, TypeErrors(value, schema)[1])>>
    ELSE
      StringErrors(value, schema, propertyName)
      \o NumberErrors(value, schema, propertyName)
      \o (IF IsArray(value) /\ schema.items # <<>>
          THEN ItemErrors(Payload(value), schema.items[1], propertyName, 1)
          ELSE <<>>)
      \o (IF Kind(value) = "object" /\ schema.properties # <<>>
          THEN EntryErrors(Payload(value), schema.properties[1], propertyName, 1)
          ELSE <<>>)
      \o EnumErrors(value, schema, propertyName)

RECURSIVE RequiredErrors(_, _, _)
\* mutant: the loop stops at the first missing field
RequiredErrors_FirstOnly(obj, required, i) ==
    IF i > Len(required) THEN <<>>
    ELSE IF \/ ~HasOwn(obj, required[i])
            \/ Kind(Get(obj, required[i])) \in {"undefined", "null"}
    THEN <<LabelledError("Missing required field", required[i])>>
    ELSE RequiredErrors(obj, required, i + 1)

\* the loop over schema.required, from field i
RequiredErrors(obj, required, i) ==
    IF i > Len(required) THEN <<>>
    ELSE (IF \/ ~HasOwn(obj, required[i])
             \/ Kind(Get(obj, required[i])) \in {"undefined", "null"}
          THEN <<LabelledError("Missing required field", required[i])>>
          ELSE <<>>)
         \o RequiredErrors(obj, required, i + 1)

RECURSIVE TopLevelErrors(_, _, _)
\* the loop over Object.entries(obj), from entry i
TopLevelErrors(entries, schema, i) ==
    IF i > Len(entries) THEN <<>>
    ELSE LET key == entries[i][1]
             value == entries[i][2]
             propSchema == LookupProperty(schema.properties[1], key)
         IN  (IF propSchema = <<>>
              THEN IF schema.additionalProperties = <<FALSE>>
                   THEN <<LabelledError("Unknown property", key)>>
                   ELSE <<>>
              ELSE validateProperty(value, propSchema[1], key))
             \o TopLevelErrors(entries, schema, i + 1)

validateSchema(data, schema) ==
    IF TypeOf(data) # "object" \/ Kind(data) = "null"
    THEN <<PropertyError("Data", "must be an object")>>
    ELSE RequiredErrors(data, schema.required, 1)
         \o TopLevelErrors(Entries(data), schema, 1)

FlagReturned(value) ==
    [ok |-> TRUE, message |-> "", errors |-> <<>>, value |-> value]

FlagThrown(message, errors) ==
    [ok |-> FALSE, message |-> message, errors |-> errors, value |-> Undefined]

\* fileName is <<>> when the argument is omitted, else <<name>>
validateFlagSchema(data, name) ==
    LET errors == validateSchema(data, FLAG_SCHEMA)
    IN  IF Len(errors) > 0
        THEN FlagThrown("Feature flag validation failed"
                            \o (IF name # <<>> THEN " in " \o name[1] ELSE ""),
                        errors)
        ELSE FlagReturned(data)

(***************************************************************************)
(* The size guard.  The file system's answer for a path is a record:       *)
(* fails (Bun.file, exists() or size throws), exists, size in bytes.       *)
(***************************************************************************)
DefaultMaxSizeBytes == 1024 * 1024

\* the promise resolved (with undefined)
Resolved ==
    [ok |-> TRUE, name |-> "", message |-> "", errors |-> <<>>, context |-> [filePath |-> <<>>]]

\* new ValidationError(message, errors, context), thrown
ValidationError(message, errors, context) ==
    [ok |-> FALSE, name |-> "ValidationError", message |-> message,
     errors |-> errors, context |-> context]

\* an error of another class, thrown by the runtime
RuntimeError(message) ==
    [ok |-> FALSE, name |-> "Error", message |-> message, errors |-> <<>>,
     context |-> [filePath |-> <<>>]]

ExceedsLimit_AtLeast(stats, limit) == stats >= limit

\* stats > maxSizeBytes
ExceedsLimit(stats, limit) == stats > limit

CatchFileSizeError_Rethrow(error, path) == error

\* the catch clause: a ValidationError is rethrown, any other error wrapped
CatchFileSizeError(error, path) ==
    IF error.name = "ValidationError"
    THEN error
    ELSE ValidationError("Failed to check file size", <<error.message>>,
                         [filePath |-> path])

\* max is Undefined when the argument is omitted
validateFileSize(path, max, file) ==
    LET limit == IF Kind(max) = "undefined" THEN DefaultMaxSizeBytes ELSE Payload(max)
        stats == file.size
        attempt ==
            IF file.fails THEN RuntimeError("EIO")
            ELSE IF ~file.exists
            THEN ValidationError("File does not exist",
                                 << <<"File not found: ", path>> >>,
                                 [filePath |-> path])
            ELSE IF ExceedsLimit(stats, limit)
            THEN ValidationError("File size exceeds maximum allowed size",
                                 << "File size: " \o ToString(stats)
                                      \o " bytes, maximum: " \o ToString(limit)
                                      \o " bytes" >>,
                                 [filePath |-> path, fileSize |-> stats,
                                  maxSize |-> limit])
            ELSE Resolved
    IN  IF attempt.ok THEN attempt ELSE CatchFileSizeError(attempt, path)

(***************************************************************************)
(* Inputs of the path guard.                                               *)
(***************************************************************************)
PathChars == {"/", ".", "a", "\\", "NUL"}

PathStrings == UNION {[1..n -> PathChars] : n \in 0..MaxPathLen}

PathInputs == {JsString(s) : s \in PathStrings} \cup NonStrings

\* base directories: the working directory (the default), a nested
\* directory, the root, spellings that are not normalized, a relative one
BasePaths ==
    { Cwd,
      <<"/", "a", "/", "a">>,
      <<"/">>,
      <<"/", "a", "/">>,
      <<"/", "a", "/", ".", "/", "a", "a">>,
      <<"a">> }

NoResult == [ok |-> FALSE, message |-> "none", path |-> <<>>]

NoFlagResult == [ok |-> FALSE, message |-> "none", errors |-> <<>>, value |-> Undefined]

NoSizeResult ==
    [ok |-> FALSE, name |-> "", message |-> "none", errors |-> <<>>,
     context |-> [filePath |-> <<>>]]

NoFileSizeCall ==
    /\ bunFile = [fails |-> FALSE, exists |-> FALSE, size |-> 0]
    /\ maxSizeBytes = Undefined
    /\ sizeResult = NoSizeResult

(***************************************************************************)
(* Configurations of the commands.                                         *)
(***************************************************************************)
Config(flagsDir, outputFile, projectId, apiToken, local, convention) ==
    [flagsDir |-> flagsDir,
     outputFile |-> outputFile,
     posthog |-> [host |-> JsString(<<"h">>),
                  projectId |-> JsString(projectId),
                  apiToken |-> JsString(apiToken)],
     generation |-> [includeLocalConfigs |-> local, namingConvention |-> convention]]

\* the POSTHOG_HOST, POSTHOG_PROJECT_ID and POSTHOG_API_TOKEN variables of
\* process.env; a variable that is not set is the empty string
NoEnv == [host |-> <<>>, projectId |-> <<>>, apiToken |-> <<>>]

Envs == {NoEnv, [host |-> <<"e">>, projectId |-> <<"p">>, apiToken |-> <<"t">>]}

\* a config file that sets nothing
NoUserConfig == <<>>

DefaultConfig_NoEnv(e) ==
    Config(JsString(<<"f", "f">>), JsString(<<"s", "/", "f", "f">>), <<>>, <<>>,
           TRUE, "snake_case")

\* the configuration loadConfig starts from, with the environment e.
\* Names are shortened: "ff" stands for 'feature-flags', "s/ff" for
\* 'src/generated/feature-flags.ts' and "h" for 'https://app.posthog.com'.
DefaultConfig(e) ==
    [Config(JsString(<<"f", "f">>), JsString(<<"s", "/", "f", "f">>),
            e.projectId, e.apiToken, TRUE, "snake_case")
        EXCEPT !.posthog.host = JsString(IF e.host = <<>> THEN <<"h">> ELSE e.host)]

NoJson == Undefined

NoWritten ==
    [ok |-> FALSE, FeatureFlags |-> <<>>, hasLocal |-> FALSE, LocalFeatureFlags |-> <<>>]

\* no call of a guard is under way
NoReturn == [what |-> "", ok |-> "", fail |-> ""]

\* createUseFeatureFlagEnabled has not been called: there is no hook.
NoHook ==
    [ LocalFeatureFlags |-> <<>>, isDevelopment |-> Undefined, debug |-> FALSE,
      flag |-> <<>>, posthogEnabled |-> Undefined, isDevMode |-> FALSE,
      invocations |-> 0, posthogCalls |-> <<>>, logs |-> 0, result |-> Undefined ]

NoPipeline ==
    /\ command = "none"
    /\ cli = FALSE
    /\ configPath = JsString(<<>>)
    /\ config = DefaultConfig(NoEnv)
    /\ env = NoEnv
    /\ userConfig = NoUserConfig
    /\ safeFlagsDir = <<>>
    /\ files = <<>>
    /\ index = 0
    /\ json = NoJson
    /\ keys = <<>>
    /\ flagConfigs = <<>>
    /\ allFlags = <<>>
    /\ requests = <<>>
    /\ hasErrors = FALSE
    /\ io = <<>>
    /\ written = NoWritten
    /\ hook = NoHook
    /\ ret = NoReturn

(***************************************************************************)
(* The path guard as a state machine: one call, then a second call on the  *)
(* path the first one returned.                                            *)
(***************************************************************************)
InitPath ==
    /\ pc = "idle"
    /\ filePath \in PathInputs
    /\ basePath \in BasePaths
    /\ pathResult = NoResult
    /\ prevResult = NoResult
    /\ flagData = Undefined
    /\ fileName = <<>>
    /\ flagResult = NoFlagResult
    /\ NoFileSizeCall
    /\ NoPipeline

CallValidatePath ==
    /\ pc = "idle"
    /\ pathResult' = validatePath(filePath, basePath)
    /\ pc' = "returned"
    /\ UNCHANGED <<filePath, basePath, prevResult, flagVars, sizeVars, pipeVars>>

RevalidatePath ==
    /\ pc = "returned"
    /\ pathResult.ok
    /\ prevResult' = pathResult
    /\ pathResult' = validateDirectoryPath(JsString(pathResult.path), basePath)
    /\ pc' = "revalidated"
    /\ UNCHANGED <<filePath, basePath, flagVars, sizeVars, pipeVars>>

NextPath == CallValidatePath \/ RevalidatePath

SpecPath == InitPath /\ [][NextPath]_vars

(***************************************************************************)
(* Inputs of the schema validator: parsed flag files.                      *)
(***************************************************************************)
\* c.repeat(n)
Repeat(c, n) == [i \in 1..n |-> c]

\* zero or one entry named name, with a value of Values
Optional(name, Values) == {<<>>} \cup {<< <<name, x>> >> : x \in Values}

One(name, value) == << <<name, value>> >>

SeqsUpTo(S, n) == UNION {[1..k -> S] : k \in 0..n}

KeyChars == {"a", "1", "-", "A", "_", " ", "@"}

\* every short key, and keys around the length limit
KeyStrings ==
    SeqsUpTo(KeyChars, MaxKeyLen)
    \cup { Repeat("a", 99), Repeat("a", 100), Repeat("a", 101),
           Repeat("a", 50) \o <<"-">> \o Repeat("1", 49),
           Repeat("a", 50) \o <<"-">> \o Repeat("1", 50),
           Repeat("a", 99) \o <<"-">>,
           <<"d", "a", "r", "k", "-", "m", "o", "d", "e">>,
           <<"U", "P", "P", "E", "R", "C", "A", "S", "E">> }

KeyValues == {Str(k) : k \in KeyStrings} \cup {JNull, Undefined, Num(1)}

NameValues ==
    { Str(<<"T">>), Str(<<>>), Str(Repeat("n", 200)), Str(Repeat("n", 201)),
      JNull, Num(7) }

ActiveValues == {Bool(TRUE), Bool(FALSE), Str(<<"t", "r", "u", "e">>), Num(1), JNull}

DescriptionValues == {Str(<<"d">>), Str(Repeat("d", 1000)), Str(Repeat("d", 1001)), Num(0)}

RolloutValues == {Num(0 - 1), Num(0), Num(100), Num(101)}

GroupPropertyValues ==
    << Obj(One("key", Str(<<"e">>)) \o One("value", Str(<<"@">>))
           \o One("operator", Str(<<"i">>))
           \o One("type", Str(<<"p", "e", "r", "s", "o", "n">>))),
       Obj(One("key", Str(<<>>)) \o One("type", Str(<<"u", "s", "e", "r">>))),
       Obj(One("value", Arr(<<Num(1)>>)) \o One("extra", JNull)),
       Obj(One("key", Str(<<"k">>)) \o One("value", Bool(TRUE)) \o One("type", Num(1))) >>

GroupValues ==
    { Obj(One("rollout_percentage", r)) : r \in RolloutValues }
    \cup { Obj(One("properties", Arr(GroupPropertyValues))
               \o One("rollout_percentage", Num(50))),
           Obj(One("variant", Num(1)) \o One("rollout_percentage", Str(<<"5", "0">>))
               \o One("note", Str(<<>>))),
           Num(3) }

VariantValues ==
    { Obj(One("key", Str(<<"v">>)) \o One("rollout_percentage", r)) :
          r \in {Num(50), Num(0 - 1), Num(101)} }
    \cup { Obj(One("key", Str(<<>>)) \o One("name", Num(1))
               \o One("rollout_percentage", Num(100))),
           Obj(One("rollout_percentage", Num(0))) }

ValidRequired ==
    One("key", Str(<<"a">>)) \o One("name", Str(<<"T">>)) \o One("active", Bool(TRUE))

\* flags that vary the key, with few other fields
KeyFamily ==
    { Obj(k \o n \o a) :
        k \in Optional("key", KeyValues),
        n \in Optional("name", {Str(<<"T">>)}),
        a \in Optional("active", {Bool(TRUE), Num(1)}) }

\* flags that vary the top-level fields
FieldFamily ==
    { Obj(k \o n \o a \o d \o e \o u) :
        k \in Optional("key", {Str(<<"a">>), Str(<<"-">>)}),
        n \in Optional("name", NameValues),
        a \in Optional("active", ActiveValues),
        d \in Optional("description", DescriptionValues),
        e \in Optional("ensure_experience_continues", {Bool(FALSE), Str(<<>>)}),
        u \in Optional("unknownProperty", {Str(<<"x">>)})
                  \cup {One("constructor", Num(1))} }

\* flags that vary filters.groups
GroupsFamily ==
    { Obj(One("key", k) \o One("name", Str(<<"T">>)) \o One("active", Bool(TRUE))
          \o One("filters", Obj(One("groups", Arr(g)) \o pv[1])) \o pv[2]) :
        k \in {Str(<<"a">>), Str(<<"A">>)},
        g \in SeqsUpTo(GroupValues, MaxItems),
        pv \in { <<<<>>, <<>>>>,
                 <<One("payloads", Obj(One("a", Num(101)))),
                   One("variants", Arr(<<Obj(One("key", Str(<<"v">>))
                                          \o One("rollout_percentage", Num(200)))>>))>> } }

\* flags that vary filters.multivariate.variants or variants
VariantsFamily ==
    { Obj(ValidRequired \o f \o v) :
        f \in {One("filters", Obj(One("multivariate", Obj(One("variants", Arr(m))))))
                   : m \in SeqsUpTo(VariantValues, MaxItems)},
        v \in Optional("variants", {Arr(<<Obj(One("rollout_percentage", Num(0 - 5)))>>)}) }
    \cup
    { Obj(ValidRequired \o v \o f) :
        v \in {One("variants", Arr(m)) : m \in SeqsUpTo(VariantValues, MaxItems)},
        f \in Optional("filters",
                 { Obj(One("comment", Num(1))
                       \o One("groups", Arr(<<Obj(One("rollout_percentage", Num(101)))>>))
                       \o One("multivariate",
                              Obj(One("valueOf", Str(<<>>))
                                  \o One("variants",
                                         Arr(<<Obj(One("constructor", Num(1))
                                                   \o One("rollout_percentage", Num(0 - 1))
                                                   \o One("weight", Num(200)))>>))))
                       \o One("payloads", Obj(One("key", Num(1))))),
                   Arr(<<>>), Obj(One("multivariate", Num(1))) }) }

\* data that is not a flag object at all
OtherData ==
    {JNull, Undefined, Str(<<"a">>), Num(1), Bool(TRUE), Arr(<<>>), Arr(<<Str(<<"a">>)>>)}

FlagInputs == KeyFamily \cup FieldFamily \cup GroupsFamily \cup VariantsFamily \cup OtherData

FileNames == {<<>>, <<"dark-mode.json">>}

(***************************************************************************)
(* The schema validator as a state machine: one flag file is parsed and    *)
(* handed to validateFlagSchema.                                           *)
(***************************************************************************)
InitSchema ==
    /\ pc = "idle"
    /\ flagData \in FlagInputs
    /\ fileName \in (IF flagData \in OtherData THEN FileNames ELSE {<<>>})
    /\ flagResult = NoFlagResult
    /\ filePath = JsString(<<>>)
    /\ basePath = Cwd
    /\ pathResult = NoResult
    /\ prevResult = NoResult
    /\ NoFileSizeCall
    /\ NoPipeline

CallValidateFlagSchema ==
    /\ pc = "idle"
    /\ flagResult' = validateFlagSchema(flagData, fileName)
    /\ pc' = "returned"
    /\ UNCHANGED <<flagData, fileName, pathVars, sizeVars, pipeVars>>

NextSchema == CallValidateFlagSchema

SpecSchema == InitSchema /\ [][NextSchema]_vars

(***************************************************************************)
(* Inputs of the size guard, and the guard as a state machine: one call on  *)
(* one path.                                                               *)
(***************************************************************************)
FileSizes == 0..(MaxFileSize + 1) \cup {DefaultMaxSizeBytes, DefaultMaxSizeBytes + 1}

BunFiles ==
    { [fails |-> FALSE, exists |-> TRUE, size |-> n] : n \in FileSizes }
    \cup { [fails |-> FALSE, exists |-> FALSE, size |-> 0],
           [fails |-> TRUE, exists |-> TRUE, size |-> 0] }

MaxSizeArguments == {Undefined} \cup {Num(n) : n \in 0..MaxFileSize}

FilePaths == { <<"a", ".", "j", "s", "o", "n">>, <<"/", "a", "/", "b">> }

InitFileSize ==
    /\ pc = "idle"
    /\ filePath \in {JsString(p) : p \in FilePaths}
    /\ bunFile \in BunFiles
    /\ maxSizeBytes \in MaxSizeArguments
    /\ sizeResult = NoSizeResult
    /\ basePath = Cwd
    /\ pathResult = NoResult
    /\ prevResult = NoResult
    /\ flagData = Undefined
    /\ fileName = <<>>
    /\ flagResult = NoFlagResult
    /\ NoPipeline

CallValidateFileSize ==
    /\ pc = "idle"
    /\ sizeResult' = validateFileSize(filePath.chars, maxSizeBytes, bunFile)
    /\ pc' = "returned"
    /\ UNCHANGED <<bunFile, maxSizeBytes, pathVars, flagVars, pipeVars>>

NextFileSize == CallValidateFileSize

SpecFileSize == InitFileSize /\ [][NextFileSize]_vars

(***************************************************************************)
(* The commands that load flag files: generateFlags (src/generator.ts),    *)
(* syncFlags (src/sync.ts), loadConfig (src/config.ts) and the CLI's       *)
(* generate, sync and validate commands (cli.ts).  pc is the statement the *)
(* command is at; io is the trace of what it has done to its environment:  *)
(* guard calls, file system accesses, network calls, console output.       *)
(***************************************************************************)
Event(op, arg, file, ok) == [op |-> op, arg |-> arg, file |-> file, ok |-> ok]

\* an error nobody catches rejects the promise of a library call; under the
\* CLI, main().catch reports it and calls process.exit(1)
Uncaught == IF cli THEN "exit1" ELSE "rejected"

LowerLetters ==
    << "a", "b", "c", "d", "e", "f", "g", "h", "i", "j", "k", "l", "m",
       "n", "o", "p", "q", "r", "s", "t", "u", "v", "w", "x", "y", "z" >>

UpperLetters ==
    << "A", "B", "C", "D", "E", "F", "G", "H", "I", "J", "K", "L", "M",
       "N", "O", "P", "Q", "R", "S", "T", "U", "V", "W", "X", "Y", "Z" >>

\* c.toUpperCase() and c.toLowerCase() for one character
toUpperCase(c) ==
    IF \E i \in 1..26 : LowerLetters[i] = c
    THEN UpperLetters[CHOOSE i \in 1..26 : LowerLetters[i] = c]
    ELSE c

toLowerCase(c) ==
    IF \E i \in 1..26 : UpperLetters[i] = c
    THEN LowerLetters[CHOOSE i \in 1..26 : UpperLetters[i] = c]
    ELSE c

\* key.replace(/[-\s]/g, by), by a string of zero or one character
RECURSIVE ReplaceDashSpace(_, _)
ReplaceDashSpace(key, by) ==
    IF key = <<>> THEN <<>>
    ELSE (IF Head(key) \in {"-", " "} THEN by ELSE <<Head(key)>>)
             \o ReplaceDashSpace(Tail(key), by)

\* key is the text of a non-empty string
formatConstantName(key, convention) ==
    IF convention = "camelCase"
    THEN LET joined == ReplaceDashSpace(key, <<>>)
         IN  IF joined = <<>> THEN <<>>
             ELSE <<toLowerCase(Head(joined))>> \o Tail(joined)
    ELSE IF convention = "SCREAMING_SNAKE_CASE"
    THEN LET snake == ReplaceDashSpace(key, <<"_">>)
         IN  [i \in 1..Len(snake) |-> toUpperCase(snake[i])]
    ELSE ReplaceDashSpace(key, <<"_">>)

\* the content of the generated file: the entries of FeatureFlags and, when
\* includeLocalConfigs is set, of LocalFeatureFlags; formatConstantName
\* throws for a key that is not a non-empty string
generateTypeScriptContent(ks, flags, cfg) ==
    LET convention == cfg.generation.namingConvention
        usable(k) == Kind(k) = "string" /\ Payload(k) # <<>>
    IN  IF \/ \E i \in 1..Len(ks) : ~usable(ks[i])
           \/ /\ cfg.generation.includeLocalConfigs
              /\ \E i \in 1..Len(flags) : ~usable(Get(flags[i], "key"))
        THEN [ok |-> FALSE, FeatureFlags |-> <<>>, hasLocal |-> FALSE,
              LocalFeatureFlags |-> <<>>]
        ELSE [ok |-> TRUE,
              FeatureFlags |->
                  [i \in 1..Len(ks) |->
                      [name |-> formatConstantName(Payload(ks[i]), convention),
                       value |-> ks[i]]],
              hasLocal |-> cfg.generation.includeLocalConfigs,
              LocalFeatureFlags |->
                  IF cfg.generation.includeLocalConfigs
                  THEN [i \in 1..Len(flags) |->
                          [name |-> formatConstantName(
                                        Payload(Get(flags[i], "key")), convention),
                           key |-> Get(flags[i], "key"),
                           flagName |-> Get(flags[i], "name"),
                           enabled |-> Get(flags[i], "active")]]
                  ELSE <<>>]

\* path.substring(0, path.lastIndexOf('/'))
OutputDir(path) ==
    LET slashes == {i \in 1..Len(path) : path[i] = "/"}
    IN  IF slashes = {} THEN <<>> ELSE SubSeq(path, 1, Max(slashes) - 1)

\* validateConfig: the checks of flagsDir, outputFile and posthog
validateConfig(cfg) ==
    /\ ~IsFalsy(cfg.flagsDir) /\ cfg.flagsDir.type = "string"
    /\ ~IsFalsy(cfg.outputFile) /\ cfg.outputFile.type = "string"
    /\ ~IsFalsy(cfg.posthog.host) /\ cfg.posthog.host.type = "string"
    /\ cfg.posthog.projectId.type = "string"
    /\ cfg.posthog.apiToken.type = "string"

(***************************************************************************)
(* Inputs of the commands: configurations and flag files.                  *)
(***************************************************************************)
\* a directory below the working directory, one above it, an absolute one
\* inside it, and a value that is no string
FlagsDirs ==
    { JsString(<<"f">>), JsString(<<".", ".", "/", "f">>),
      JsString(<<"/", "a", "/", "f">>), [type |-> "null", chars |-> <<>>] }

OutputFiles == { JsString(<<"o", "/", "g">>), JsString(<<".", ".", "/", "g">>) }

Configs ==
    { Config(f, o, <<"p">>, <<"t">>, TRUE, "snake_case") :
          f \in FlagsDirs, o \in OutputFiles }
    \cup { Config(JsString(<<"f">>), JsString(<<"o", "/", "g">>), c[1], c[2], c[3], c[4]) :
             c \in { << <<>>, <<"t">>, TRUE, "snake_case" >>,
                     << <<"p">>, <<>>, TRUE, "snake_case" >>,
                     << <<"p">>, <<"t">>, FALSE, "camelCase" >>,
                     << <<"p">>, <<"t">>, TRUE, "SCREAMING_SNAKE_CASE" >> } }

\* the --config argument: the default name ("c.js" stands for
\* 'hogsync.config.js'), and a path above the working directory
ConfigPaths ==
    { JsString(<<"c", ".", "j", "s">>), JsString(<<".", ".", "/", "c">>) }

\* what a config file may export: nothing, a whole configuration (a safe
\* one, one without credentials, ones with flagsDir or outputFile outside
\* the working directory), single fields at the top level and inside posthog
\* and generation, and values validateConfig refuses
UserConfigs ==
    { NoUserConfig,
      Config(JsString(<<"f">>), JsString(<<"o", "/", "g">>), <<"p">>, <<"t">>,
             FALSE, "camelCase"),
      Config(JsString(<<"f">>), JsString(<<"o", "/", "g">>), <<>>, <<>>,
             TRUE, "snake_case"),
      Config(JsString(<<".", ".", "/", "f">>), JsString(<<"o", "/", "g">>),
             <<"p">>, <<"t">>, TRUE, "snake_case"),
      Config(JsString(<<"f">>), JsString(<<".", ".", "/", "g">>), <<"p">>, <<"t">>,
             TRUE, "snake_case"),
      [flagsDir |-> JsString(<<"g">>)],
      [posthog |-> [projectId |-> JsString(<<"u">>)]],
      [generation |-> [namingConvention |-> "SCREAMING_SNAKE_CASE"]],
      [outputFile |-> [type |-> "null", chars |-> <<>>]],
      [posthog |-> [host |-> JsString(<<>>)]] }

\* { ...a, ...b }
Spread(a, b) ==
    [k \in DOMAIN a \cup DOMAIN b |-> IF k \in DOMAIN b THEN b[k] ELSE a[k]]

\* user.posthog and the like: a field that is not set spreads as nothing
FieldOf(user, name) == IF name \in DOMAIN user THEN user[name] ELSE <<>>

\* mergedConfig
mergeConfig(defaultConfig, user) ==
    [Spread(defaultConfig, user) EXCEPT
        !.posthog = Spread(defaultConfig.posthog, FieldOf(user, "posthog")),
        !.generation = Spread(defaultConfig.generation, FieldOf(user, "generation"))]

\* the text of a file that JSON.parse rejects
Unparsable == <<"invalid", 0>>

FlagFile(size, readable, content) ==
    [entry |-> [fails |-> FALSE, exists |-> TRUE, size |-> size],
     readable |-> readable, content |-> content]

\* two valid flags, a valid flag in a file over the size limit, a file that
\* cannot be read, a file that is no JSON, a flag without its name
FlagFiles ==
    { FlagFile(1, TRUE, Obj(ValidRequired)),
      FlagFile(1, TRUE, Obj(One("key", Str(<<"b", "-", "c">>)) \o One("name", Str(<<"B">>))
                            \o One("active", Bool(FALSE)))),
      FlagFile(DefaultMaxSizeBytes + 1, TRUE, Obj(ValidRequired)),
      FlagFile(1, FALSE, Obj(ValidRequired)),
      FlagFile(1, TRUE, Unparsable),
      FlagFile(1, TRUE, Obj(One("key", Str(<<"d">>)) \o One("active", Bool(TRUE)))) }

\* what PostHog may answer to the request for all flags: no flag, the flag
\* "a", the flags "a" and "b-c"; each flag has an id and a key
RemoteLists ==
    { <<>>,
      <<[id |-> 7, key |-> <<"a">>]>>,
      <<[id |-> 7, key |-> <<"a">>], [id |-> 8, key |-> <<"b", "-", "c">>]>> }

\* value || fallback
OrElse(value, fallback) ==
    IF \/ Kind(value) \in {"undefined", "null"}
       \/ Kind(value) = "boolean" /\ Payload(value) = FALSE
       \/ Kind(value) = "number" /\ Payload(value) = 0
       \/ Kind(value) = "string" /\ Payload(value) = <<>>
    THEN fallback ELSE value

\* the fields createFeatureFlag and updateFeatureFlag both send
SharedBody(flag) ==
    One("name", Get(flag, "name"))
    \o One("active", Get(flag, "active"))
    \o One("filters", OrElse(Get(flag, "filters"), Obj(<<>>)))
    \o One("description", OrElse(Get(flag, "description"), Str(<<>>)))
    \o One("ensure_experience_continues",
           OrElse(Get(flag, "ensure_experience_continues"), Bool(FALSE)))
    \o One("variants", OrElse(Get(flag, "variants"), Arr(<<>>)))

\* the request createFeatureFlag sends
createFeatureFlag(flag) ==
    [method |-> "POST",
     url |-> <<"feature_flags">>,
     body |-> Obj(One("key", Get(flag, "key")) \o SharedBody(flag))]

updateFeatureFlag_WithKey(flagId, flag) ==
    [method |-> "PATCH",
     url |-> <<"feature_flags", flagId>>,
     body |-> Obj(One("key", Get(flag, "key")) \o SharedBody(flag))]

\* the request updateFeatureFlag sends
updateFeatureFlag(flagId, flag) ==
    [method |-> "PATCH",
     url |-> <<"feature_flags", flagId>>,
     body |-> Obj(SharedBody(flag))]

\* mutant: allFlags.find never finds the flag
FindFlag_None(list, key) == 0

\* allFlags.find(f => f.key === key): the position of the first flag with
\* the key, 0 when there is none
FindFlag(list, key) ==
    LET found == {i \in 1..Len(list) : Str(list[i].key) = key}
    IN  IF found = {} THEN 0 ELSE Min(found)

(***************************************************************************)
(* The commands as a state machine.  A call of validatePath or of          *)
(* validateFlagSchema is a step of its own: the caller stores the          *)
(* arguments and where to go on (ret), the callee stores its outcome.      *)
(***************************************************************************)
InitPipeline ==
    /\ \/ /\ cli = FALSE
          /\ command \in {"generateFlags", "syncFlags"}
          /\ pc = command
          /\ config \in Configs
          /\ configPath = JsString(<<>>)
       \/ /\ cli = FALSE
          /\ command = "loadConfig"
          /\ pc = "loadConfig"
          /\ config = DefaultConfig(NoEnv)
          /\ configPath \in ConfigPaths
       \/ /\ cli = TRUE
          /\ command \in {"generate", "sync", "validate"}
          /\ pc = "getConfigPath"
          /\ config = DefaultConfig(NoEnv)
          /\ configPath \in ConfigPaths
    /\ env = NoEnv
    /\ userConfig = NoUserConfig
    /\ safeFlagsDir = <<>>
    /\ files = <<>>
    /\ index = 0
    /\ json = NoJson
    /\ keys = <<>>
    /\ flagConfigs = <<>>
    /\ allFlags = <<>>
    /\ requests = <<>>
    /\ hasErrors = FALSE
    /\ io = <<>>
    /\ written = NoWritten
    /\ hook = NoHook
    /\ ret = NoReturn
    /\ filePath = JsString(<<>>)
    /\ basePath = Cwd
    /\ pathResult = NoResult
    /\ prevResult = NoResult
    /\ flagData = Undefined
    /\ fileName = <<>>
    /\ flagResult = NoFlagResult
    /\ NoFileSizeCall

\* the call validatePath(value) (or validateDirectoryPath(value)) of the
\* configured path named what
Guard(value, what, ok, fail) ==
    /\ filePath' = value
    /\ basePath' = Cwd
    /\ ret' = [what |-> what, ok |-> ok, fail |-> fail]
    /\ pc' = "validatePath"
    /\ UNCHANGED <<pathResult, prevResult, io>>

RunValidatePath_SkipFailure ==
    /\ pc = "validatePath"
    /\ LET r == validatePath(filePath, basePath)
       IN  /\ pathResult' = IF r.ok THEN r ELSE Returned(filePath.chars)
           /\ io' = io \o <<Event("validatePath", ret.what, 0, r.ok)>>
    /\ pc' = ret.ok
    /\ UNCHANGED <<filePath, basePath, prevResult, ret>>
    /\ UNCHANGED <<hookVars, command, cli, configVars, dirVars, loopVars, genVars, remoteVars,
                   hasErrors, flagVars, sizeVars>>

\* validatePath runs (validateDirectoryPath delegates to it) and returns to
\* its caller, or throws
RunValidatePath ==
    /\ pc = "validatePath"
    /\ pathResult' = validatePath(filePath, basePath)
    /\ io' = io \o <<Event("validatePath", ret.what, 0, pathResult'.ok)>>
    /\ pc' = IF pathResult'.ok THEN ret.ok ELSE ret.fail
    /\ UNCHANGED <<filePath, basePath, prevResult, ret>>
    /\ UNCHANGED <<hookVars, command, cli, configVars, dirVars, loopVars, genVars, remoteVars,
                   hasErrors, flagVars, sizeVars>>

\* the name of the file the loop is at, and join(safeFlagsDir, file)
FileName == ToString(index) \o ".json"

FilePath == safeFlagsDir \o <<"/", ToString(index), ".", "j", "s", "o", "n">>

\* the call validateFlagSchema(json, file)
Validate(ok, fail) ==
    /\ flagData' = json
    /\ fileName' = <<FileName>>
    /\ ret' = [what |-> "", ok |-> ok, fail |-> fail]
    /\ pc' = "validateFlagSchema"
    /\ UNCHANGED <<flagResult, io>>

\* validateFlagSchema runs and returns the flag to its caller, or throws
RunValidateFlagSchema ==
    /\ pc = "validateFlagSchema"
    /\ flagResult' = validateFlagSchema(flagData, fileName)
    /\ io' = io \o <<Event("validateFlagSchema", "", index, flagResult'.ok)>>
    /\ pc' = IF flagResult'.ok THEN ret.ok ELSE ret.fail
    /\ UNCHANGED <<flagData, fileName, ret>>
    /\ UNCHANGED <<hookVars, command, cli, configVars, dirVars, loopVars, genVars, remoteVars,
                   hasErrors, pathVars, sizeVars>>

\* cli.ts: getConfigPath, called first by handleGenerate, handleSync and
\* handleValidate
GetConfigPath ==
    /\ pc = "getConfigPath"
    /\ Guard(configPath, "configPath", "loadConfig", "getConfigPath.catch")
    /\ UNCHANGED <<hookVars, command, cli, configVars, dirVars, loopVars, genVars, remoteVars,
                   hasErrors, flagVars, sizeVars>>

GetConfigPathCatch ==
    /\ pc = "getConfigPath.catch"
    /\ io' = io \o <<Event("console.error", "Invalid config path", 0, TRUE)>>
    /\ pc' = "exit1"
    /\ UNCHANGED <<hookVars, command, cli, configVars, dirVars, loopVars, genVars, remoteVars,
                   hasErrors, ret, callVars>>

\* config.ts: const safeConfigPath = validatePath(configPath); under the CLI
\* configPath is what getConfigPath returned
LoadConfigGuard ==
    /\ pc = "loadConfig"
    /\ Guard(IF cli THEN JsString(pathResult.path) ELSE configPath,
             "configPath", "loadConfig.exists", Uncaught)
    /\ UNCHANGED <<hookVars, command, cli, configVars, dirVars, loopVars, genVars, remoteVars,
                   hasErrors, flagVars, sizeVars>>

\* where the caller of loadConfig goes on
AfterLoadConfig ==
    CASE command = "generate" -> "generateFlags"
      [] command = "sync" -> "syncFlags"
      [] command = "validate" -> "handleValidate"
      [] OTHER -> "resolved"

\* config.ts: the rest of loadConfig.  The file at the path may not exist;
\* when it exists, importing it may fail, and what it exports, merged over
\* the defaults, may fail validateConfig.
LoadConfig ==
    /\ pc = "loadConfig.exists"
    /\ \E exists \in BOOLEAN, e \in Envs,
          imported \in {"throws", "no object", "object"}, user \in UserConfigs :
         LET seen == io \o <<Event("existsSync", "configPath", 0, exists)>>
             defaultConfig == DefaultConfig(e)
             mergedConfig == mergeConfig(defaultConfig, user)
             failed == <<Event("console.error", "Error loading config file", 0, TRUE)>>
         IN  /\ env' = e
             /\ IF ~exists
                THEN /\ userConfig' = NoUserConfig
                     /\ config' = defaultConfig
                     /\ io' = seen \o <<Event("console.log", "Config file not found",
                                              0, TRUE)>>
                     /\ pc' = AfterLoadConfig
                ELSE IF imported # "object"
                THEN /\ userConfig' = NoUserConfig
                     /\ config' = config
                     /\ io' = seen \o <<Event("import", "configPath", 0,
                                              imported # "throws")>>
                                   \o failed
                     /\ pc' = Uncaught
                ELSE /\ userConfig' = user
                     /\ io' = seen \o <<Event("import", "configPath", 0, TRUE)>>
                                   \o (IF validateConfig(mergedConfig) THEN <<>> ELSE failed)
                     /\ config' = IF validateConfig(mergedConfig) THEN mergedConfig
                                  ELSE config
                     /\ pc' = IF validateConfig(mergedConfig) THEN AfterLoadConfig
                              ELSE Uncaught
    /\ UNCHANGED <<hookVars, command, cli, configPath, dirVars, loopVars, genVars, remoteVars,
                   hasErrors, ret, callVars>>

\* const safeFlagsDir = ..., existsSync(safeFlagsDir), exit when it is
\* missing, then the scan for *.json; noneFound and someFound are what the
\* command prints
ScanFlagsDir(first, empty, noneFound, someFound) ==
    /\ safeFlagsDir' = pathResult.path
    /\ \E exists \in BOOLEAN, found \in SeqsUpTo(FlagFiles, MaxFiles) :
        IF ~exists
        THEN /\ io' = io \o <<Event("existsSync", "flagsDir", 0, FALSE),
                             Event("console.error", "Flags directory not found", 0, TRUE)>>
             /\ pc' = "exit1"
             /\ UNCHANGED <<files, index>>
        ELSE /\ io' = io \o <<Event("existsSync", "flagsDir", 0, TRUE),
                             Event("scan", "flagsDir", 0, TRUE)>>
                        \o (IF found = <<>> THEN noneFound ELSE someFound)
             /\ files' = found
             /\ index' = IF found = <<>> THEN 0 ELSE 1
             /\ pc' = IF found = <<>> THEN empty ELSE first

\* for (const file of files): on to the next file, or out of the loop
NextFile(loop, after) ==
    IF index < Len(files)
    THEN index' = index + 1 /\ pc' = loop
    ELSE index' = index /\ pc' = after

\* readFileSync(filePath, 'utf8') and JSON.parse of what was read; an error
\* goes to the catch clause of the loop
ReadParse(next, catch) ==
    LET file == files[index]
        read == Event("readFileSync", "flagsDir", index, file.readable)
        parsed == Kind(file.content) # "invalid"
    IN  IF ~file.readable
        THEN io' = io \o <<read>> /\ pc' = catch /\ json' = json
        ELSE /\ io' = io \o <<read, Event("JSON.parse", "", index, parsed)>>
             /\ pc' = IF parsed THEN next ELSE catch
             /\ json' = IF parsed THEN file.content ELSE json

(***************************************************************************)
(* generateFlags.                                                          *)
(***************************************************************************)
GenGuardFlagsDir_Unguarded ==
    /\ pc = "generateFlags"
    /\ pathResult' = Returned(config.flagsDir.chars)
    /\ pc' = "gen.scan"
    /\ UNCHANGED <<filePath, basePath, prevResult, ret, io>>
    /\ UNCHANGED <<hookVars, command, cli, configVars, dirVars, loopVars, genVars, remoteVars,
                   hasErrors, flagVars, sizeVars>>

GenGuardFlagsDir ==
    /\ pc = "generateFlags"
    /\ Guard(config.flagsDir, "flagsDir", "gen.scan", Uncaught)
    /\ UNCHANGED <<hookVars, command, cli, configVars, dirVars, loopVars, genVars, remoteVars,
                   hasErrors, flagVars, sizeVars>>

GenScan ==
    /\ pc = "gen.scan"
    /\ ScanFlagsDir("gen.size", "resolved",
                    <<Event("console.log", "No flag files found", 0, TRUE)>>, <<>>)
    /\ UNCHANGED <<hookVars, command, cli, configVars, json, genVars, remoteVars, hasErrors, ret,
                   callVars>>

\* await validateFileSize(filePath)
GenValidateFileSize ==
    /\ pc = "gen.size"
    /\ LET r == validateFileSize(FilePath, Undefined, files[index].entry)
       IN  /\ io' = io \o <<Event("validateFileSize", "flagsDir", index, r.ok)>>
           /\ pc' = IF r.ok THEN "gen.read" ELSE "gen.catch"
    /\ UNCHANGED <<hookVars, command, cli, configVars, dirVars, loopVars, genVars, remoteVars,
                   hasErrors, ret, callVars>>

GenReadParse ==
    /\ pc = "gen.read"
    /\ ReadParse("gen.validate", "gen.catch")
    /\ UNCHANGED <<hookVars, command, cli, configVars, dirVars, index, genVars, remoteVars,
                   hasErrors, ret, callVars>>

GenValidate_Unchecked ==
    /\ pc = "gen.validate"
    /\ flagResult' = FlagReturned(json)
    /\ pc' = "gen.push"
    /\ UNCHANGED <<flagData, fileName, ret, io>>
    /\ UNCHANGED <<hookVars, command, cli, configVars, dirVars, loopVars, genVars, remoteVars,
                   hasErrors, pathVars, sizeVars>>

\* const validatedFlag = validateFlagSchema(json, file)
GenValidate ==
    /\ pc = "gen.validate"
    /\ Validate("gen.push", "gen.catch")
    /\ UNCHANGED <<hookVars, command, cli, configVars, dirVars, loopVars, genVars, remoteVars,
                   hasErrors, pathVars, sizeVars>>

\* keys.push(validatedFlag.key) and flagConfigs.push(validatedFlag)
GenPush ==
    /\ pc = "gen.push"
    /\ keys' = Append(keys, Get(flagResult.value, "key"))
    /\ flagConfigs' = Append(flagConfigs, flagResult.value)
    /\ NextFile("gen.size", "gen.output")
    /\ UNCHANGED <<hookVars, command, cli, configVars, dirVars, json, written, remoteVars,
                   hasErrors, io, ret, callVars>>

GenCatch_Exit ==
    /\ pc = "gen.catch"
    /\ io' = io \o <<Event("console.error", "Error processing", index, TRUE)>>
    /\ pc' = "exit1"
    /\ UNCHANGED <<hookVars, command, cli, configVars, dirVars, loopVars, genVars, remoteVars,
                   hasErrors, ret, callVars>>

\* the catch clause of the loop: the error is printed ('Error reading' when
\* it is an EACCES error, which readFileSync throws) and the loop goes on
GenCatch ==
    /\ pc = "gen.catch"
    /\ io' = io \o <<Event("console.error",
                           IF io[Len(io)].op = "readFileSync"
                           THEN "Error reading" ELSE "Error processing",
                           index, TRUE)>>
    /\ NextFile("gen.size", "gen.output")
    /\ UNCHANGED <<hookVars, command, cli, configVars, dirVars, json, genVars, remoteVars,
                   hasErrors, ret, callVars>>

\* generateTypeScriptContent(keys, flagConfigs, config), then
\* const safeOutputFile = validatePath(config.outputFile)
GenGuardOutput ==
    /\ pc = "gen.output"
    /\ IF generateTypeScriptContent(keys, flagConfigs, config).ok
       THEN Guard(config.outputFile, "outputFile", "gen.write", Uncaught)
       ELSE pc' = Uncaught /\ UNCHANGED <<pathVars, ret, io>>
    /\ UNCHANGED <<hookVars, command, cli, configVars, dirVars, loopVars, genVars, remoteVars,
                   hasErrors, flagVars, sizeVars>>

\* the output directory is created when it is missing (by writing .gitkeep
\* into it), then the file is written; a write may fail
GenWrite ==
    /\ pc = "gen.write"
    /\ \E dirExists \in BOOLEAN, writable \in BOOLEAN :
         LET outputDir == OutputDir(pathResult.path)
             probe == IF outputDir = <<>> THEN <<>>
                      ELSE <<Event("existsSync", "outputFile", 0, dirExists)>>
                           \o (IF dirExists THEN <<>>
                               ELSE <<Event("write .gitkeep", "outputFile", 0, writable)>>)
         IN  IF writable
             THEN /\ written' = generateTypeScriptContent(keys, flagConfigs, config)
                  /\ io' = io \o probe
                              \o <<Event("write", "outputFile", 0, TRUE),
                                   Event("console.log", "Generated", 0, TRUE)>>
                  /\ pc' = "resolved"
             ELSE /\ written' = written
                  /\ io' = io \o probe
                              \o (IF outputDir # <<>> /\ ~dirExists THEN <<>>
                                  ELSE <<Event("write", "outputFile", 0, FALSE)>>)
                  /\ pc' = Uncaught
    /\ UNCHANGED <<hookVars, command, cli, configVars, dirVars, loopVars, keys, flagConfigs,
                   remoteVars, hasErrors, ret, callVars>>

(***************************************************************************)
(* syncFlags.                                                              *)
(***************************************************************************)
SyncCredentials_Unchecked ==
    /\ pc = "syncFlags"
    /\ pc' = "sync.guard"
    /\ UNCHANGED <<hookVars, command, cli, configVars, dirVars, loopVars, genVars, remoteVars,
                   hasErrors, io, ret, callVars>>

\* the check of projectId and apiToken that syncFlags begins with
SyncCredentials ==
    /\ pc = "syncFlags"
    /\ IF IsFalsy(config.posthog.projectId) \/ IsFalsy(config.posthog.apiToken)
       THEN /\ io' = io \o <<Event("console.error",
                                   "PostHog project ID and API token are required",
                                   0, TRUE)>>
            /\ pc' = "exit1"
       ELSE /\ io' = io
            /\ pc' = "sync.guard"
    /\ UNCHANGED <<hookVars, command, cli, configVars, dirVars, loopVars, genVars, remoteVars,
                   hasErrors, ret, callVars>>

SyncGuardFlagsDir ==
    /\ pc = "sync.guard"
    /\ Guard(config.flagsDir, "flagsDir", "sync.scan", Uncaught)
    /\ UNCHANGED <<hookVars, command, cli, configVars, dirVars, loopVars, genVars, remoteVars,
                   hasErrors, flagVars, sizeVars>>

SyncScan ==
    /\ pc = "sync.scan"
    /\ ScanFlagsDir("sync.fetch", "resolved",
                    <<Event("console.log", "No flag files found to sync", 0, TRUE)>>,
                    <<Event("console.log", "Found feature flag files to sync", 0, TRUE)>>)
    /\ UNCHANGED <<hookVars, command, cli, configVars, json, genVars, remoteVars, hasErrors, ret,
                   callVars>>

\* const allFlags = await getAllFeatureFlags(host, projectId, apiToken): the
\* request may fail, and the error is not caught in syncFlags
SyncFetch ==
    /\ pc = "sync.fetch"
    /\ \E ok \in BOOLEAN, list \in RemoteLists :
         /\ io' = io \o <<Event("fetch", "GET", 0, ok)>>
         /\ allFlags' = IF ok THEN list ELSE allFlags
         /\ pc' = IF ok THEN "sync.read" ELSE Uncaught
    /\ UNCHANGED <<hookVars, command, cli, configVars, dirVars, loopVars, genVars, requests,
                   hasErrors, ret, callVars>>

\* JSON.parse(readFileSync(filePath, 'utf8'))
SyncReadParse ==
    /\ pc = "sync.read"
    /\ ReadParse("sync.validate", "sync.catch")
    /\ UNCHANGED <<hookVars, command, cli, configVars, dirVars, index, genVars, remoteVars,
                   hasErrors, ret, callVars>>

\* const flagData = validateFlagSchema(rawData, file)
SyncValidate ==
    /\ pc = "sync.validate"
    /\ Validate("sync.remote", "sync.catch")
    /\ UNCHANGED <<hookVars, command, cli, configVars, dirVars, loopVars, genVars, remoteVars,
                   hasErrors, pathVars, sizeVars>>

\* the flag is looked up by key in the cached list, then updated (PATCH) or
\* created (POST); the request may fail
SyncRemote ==
    /\ pc = "sync.remote"
    /\ \E ok \in BOOLEAN :
         LET flagDatum == flagResult.value
             found == FindFlag(allFlags, Get(flagDatum, "key"))
             existing == found # 0
             request == IF existing
                        THEN updateFeatureFlag(allFlags[found].id, flagDatum)
                        ELSE createFeatureFlag(flagDatum)
             call == <<Event("console.log", "Processing flag", index, TRUE),
                       Event("fetch", request.method, index, ok)>>
         IN  /\ requests' = Append(requests, request)
             /\ IF ok
                THEN /\ io' = io \o call
                                 \o <<Event("console.log",
                                            IF existing THEN "Updated flag"
                                            ELSE "Created flag",
                                            index, TRUE)>>
                     /\ NextFile("sync.read", "sync.done")
                ELSE /\ io' = io \o call
                     /\ pc' = "sync.catch"
                     /\ index' = index
    /\ UNCHANGED <<hookVars, command, cli, configVars, dirVars, json, genVars, allFlags,
                   hasErrors, ret, callVars>>

SyncCatch_Continue ==
    /\ pc = "sync.catch"
    /\ io' = io \o <<Event("console.error", "Error processing", index, TRUE)>>
    /\ NextFile("sync.read", "sync.done")
    /\ UNCHANGED <<hookVars, command, cli, configVars, dirVars, json, genVars, remoteVars,
                   hasErrors, ret, callVars>>

\* the catch clause of the loop: the error is printed and process.exit(1)
SyncCatch ==
    /\ pc = "sync.catch"
    /\ io' = io \o <<Event("console.error", "Error processing", index, TRUE)>>
    /\ pc' = "exit1"
    /\ UNCHANGED <<hookVars, command, cli, configVars, dirVars, loopVars, genVars, remoteVars,
                   hasErrors, ret, callVars>>

SyncDone ==
    /\ pc = "sync.done"
    /\ io' = io \o <<Event("console.log", "Feature flags sync completed successfully",
                           0, TRUE)>>
    /\ pc' = "resolved"
    /\ UNCHANGED <<hookVars, command, cli, configVars, dirVars, loopVars, genVars, remoteVars,
                   hasErrors, ret, callVars>>

(***************************************************************************)
(* The CLI's validate command (handleValidate).                            *)
(***************************************************************************)
ValGuardFlagsDir ==
    /\ pc = "handleValidate"
    /\ Guard(config.flagsDir, "flagsDir", "val.scan", Uncaught)
    /\ UNCHANGED <<hookVars, command, cli, configVars, dirVars, loopVars, genVars, remoteVars,
                   hasErrors, flagVars, sizeVars>>

ValScan ==
    /\ pc = "val.scan"
    /\ ScanFlagsDir("val.read", "val.finish",
                    <<Event("console.log", "Validating flag files", 0, TRUE)>>,
                    <<Event("console.log", "Validating flag files", 0, TRUE)>>)
    /\ hasErrors' = FALSE
    /\ UNCHANGED <<hookVars, command, cli, configVars, json, genVars, remoteVars, ret, callVars>>

ValReadParse ==
    /\ pc = "val.read"
    /\ ReadParse("val.validate", "val.catch")
    /\ UNCHANGED <<hookVars, command, cli, configVars, dirVars, index, genVars, remoteVars,
                   hasErrors, ret, callVars>>

\* validateFlagSchema(json, file)
ValValidate ==
    /\ pc = "val.validate"
    /\ Validate("val.valid", "val.catch")
    /\ UNCHANGED <<hookVars, command, cli, configVars, dirVars, loopVars, genVars, remoteVars,
                   hasErrors, pathVars, sizeVars>>

\* console.log of the valid file, and on with the loop
ValValid ==
    /\ pc = "val.valid"
    /\ io' = io \o <<Event("console.log", "Valid", index, TRUE)>>
    /\ NextFile("val.read", "val.finish")
    /\ UNCHANGED <<hookVars, command, cli, configVars, dirVars, json, genVars, remoteVars,
                   hasErrors, ret, callVars>>

ValCatch_Exit ==
    /\ pc = "val.catch"
    /\ io' = io \o <<Event("console.error", "Invalid", index, TRUE)>>
    /\ hasErrors' = TRUE
    /\ pc' = "exit1"
    /\ UNCHANGED <<hookVars, command, cli, configVars, dirVars, loopVars, genVars, remoteVars, ret,
                   callVars>>

\* the catch clause of the loop: the error is printed, hasErrors is set and
\* the loop goes on
ValCatch ==
    /\ pc = "val.catch"
    /\ io' = io \o <<Event("console.error", "Invalid", index, TRUE)>>
    /\ hasErrors' = TRUE
    /\ NextFile("val.read", "val.finish")
    /\ UNCHANGED <<hookVars, command, cli, configVars, dirVars, json, genVars, remoteVars, ret,
                   callVars>>

ValFinish ==
    /\ pc = "val.finish"
    /\ IF hasErrors
       THEN /\ io' = io \o <<Event("console.error", "Validation failed", 0, TRUE)>>
            /\ pc' = "exit1"
       ELSE /\ io' = io \o <<Event("console.log", "All flags are valid", 0, TRUE)>>
            /\ pc' = "resolved"
    /\ UNCHANGED <<hookVars, command, cli, configVars, dirVars, loopVars, genVars, remoteVars,
                   hasErrors, ret, callVars>>

NextPipeline ==
    \/ RunValidatePath \/ RunValidateFlagSchema
    \/ GetConfigPath \/ GetConfigPathCatch \/ LoadConfigGuard \/ LoadConfig
    \/ GenGuardFlagsDir \/ GenScan \/ GenValidateFileSize \/ GenReadParse
    \/ GenValidate \/ GenPush \/ GenCatch \/ GenGuardOutput \/ GenWrite
    \/ SyncCredentials \/ SyncGuardFlagsDir \/ SyncScan \/ SyncFetch
    \/ SyncReadParse \/ SyncValidate \/ SyncRemote \/ SyncCatch \/ SyncDone
    \/ ValGuardFlagsDir \/ ValScan \/ ValReadParse \/ ValValidate \/ ValValid
    \/ ValCatch \/ ValFinish

SpecPipeline == InitPipeline /\ [][NextPipeline]_vars

(***************************************************************************)
(* Properties of the path guard.                                           *)
(***************************************************************************)
\* a resolved path is normalized: absolute, and none of its segments is
\* empty, "." or ".."
IsNormalizedAbsolute(path) ==
    /\ Len(path) >= 1
    /\ path[1] = "/"
    /\ \/ path = <<"/">>
       \/ LET segs == Tail(Segments(path))
          IN  \A i \in 1..Len(segs) :
                  segs[i] \notin {<<>>, <<".">>, <<".", ".">>}

\* path is dir itself or lies below it
IsWithin(path, dir) ==
    /\ IsNormalizedAbsolute(path)
    /\ \/ path = dir
       \/ StartsWith(path, IF dir = <<"/">> THEN dir ELSE dir \o <<"/">>)

\* the string s, taken relative to base, names a location outside base
ResolvesOutside(s, base) ==
    ~IsWithin(resolve(<<base, s>>), resolve(<<base>>))

IsTraversalError(r) == ~r.ok /\ r.message = PathTraversalMessage

IsInvalidPathError(r) ==
    ~r.ok /\ r.message \in {InvalidPathMessage, NullByteMessage}

HasTraversalSequence(s) ==
    ContainsSub(s, <<".", ".", "/">>) \/ ContainsSub(s, <<".", ".", "\\">>)

\* C1: whenever validatePath returns a path, that path is resolve(base) or a
\* strict descendant of it, whatever the spelling of the input.
C1_ReturnedPathContained ==
    (pc # "idle" /\ pathResult.ok)
        => IsWithin(pathResult.path, resolve(<<basePath>>))

\* a path was returned for an input spelled with '.' segments or separators
\* and it is a strict descendant of the base
C1_Witness ==
    /\ pc = "returned"
    /\ pathResult.ok
    /\ pathResult.path # resolve(<<basePath>>)
    /\ ContainsSub(filePath.chars, <<".", "/">>)

C3_Claim ==
    (/\ pc = "returned"
     /\ filePath.type = "string"
     /\ filePath.chars # <<>>
     /\ ~Includes(filePath.chars, "NUL")
     /\ ~HasTraversalSequence(filePath.chars)
     /\ ~ResolvesOutside(filePath.chars, basePath))
        => (pathResult.ok /\ pathResult.path = resolve(<<basePath, filePath.chars>>))

\* the input is empty, not a string, or holds a NUL byte
IsForbiddenArgument(v) ==
    v.type # "string" \/ v.chars = <<>> \/ Includes(v.chars, "NUL")

\* C4: an empty, non-string or NUL-holding input is rejected, with the
\* invalid-path error and never the path-traversal one, whatever else the
\* input contains.
C4_Claim ==
    (pc = "returned" /\ IsForbiddenArgument(filePath))
        => IsInvalidPathError(pathResult)

\* C5: validatePath is idempotent: validating the path it returned, against
\* the same base, succeeds and returns that very path.
C5_Idempotent ==
    pc = "revalidated" => (pathResult.ok /\ pathResult = prevResult)

\* the second call has returned, for a first input that was not yet resolved
C5_Witness ==
    /\ pc = "revalidated"
    /\ filePath.chars # prevResult.path
    /\ pathResult.ok

(***************************************************************************)
(* Properties of the schema validator.                                     *)
(***************************************************************************)
\* value[name] of an object, undefined for anything else
Field(value, name) ==
    IF Kind(value) = "object" THEN Get(value, name) ELSE Undefined

\* the elements of the array value[name], none when it is no array
ArrayField(value, name) ==
    IF Kind(Field(value, name)) = "array" THEN Payload(Field(value, name)) ELSE <<>>

IsFlagObject == Kind(flagData) = "object"

HasStringKey == IsFlagObject /\ Kind(Field(flagData, "key")) = "string"

KeyOf == Payload(Field(flagData, "key"))

\* the key format of the data model: lowercase alphanumerics and hyphens,
\* 1 to 100 characters, no leading and no trailing hyphen
IsWellFormedKey(k) ==
    /\ Len(k) \in 1..100
    /\ \A i \in 1..Len(k) : k[i] \in LowerAlnum \cup {"-"}
    /\ k[1] # "-"
    /\ k[Len(k)] # "-"

\* the flag with its key replaced by k
WithKey(data, k) ==
    Obj([i \in 1..Len(Payload(data)) |->
            IF Payload(data)[i][1] = "key" THEN <<"key", Str(k)>>
            ELSE Payload(data)[i]])

\* the subjects of the errors thrown
ErrorSubjects == {flagResult.errors[i].subject : i \in 1..Len(flagResult.errors)}

HasError(subject, text) ==
    \E i \in 1..Len(flagResult.errors) :
        /\ flagResult.errors[i].subject = subject
        /\ flagResult.errors[i].text = text

\* C6: a flag whose key is well formed and which has no other violation is
\* accepted and returned as it was given; a well-formed key is never the
\* subject of a violation.
C6_WellFormedKeyAccepted ==
    (pc = "returned" /\ HasStringKey /\ IsWellFormedKey(KeyOf)) =>
        /\ "key" \notin ErrorSubjects
        /\ validateSchema(WithKey(flagData, <<"o", "k">>), FLAG_SCHEMA) = <<>>
              => flagResult = FlagReturned(flagData)

\* a flag with a hyphenated key of exactly 100 characters was returned
C6_Witness ==
    /\ pc = "returned"
    /\ HasStringKey
    /\ Len(KeyOf) = 100
    /\ Includes(KeyOf, "-")
    /\ flagResult = FlagReturned(flagData)

\* C7: a key that is empty, longer than 100 characters, holds a character
\* outside [a-z0-9-] or starts or ends with a hyphen makes validateFlagSchema
\* throw, whatever the other fields are.
C7_MalformedKeyRejected ==
    (pc = "returned" /\ HasStringKey /\ ~IsWellFormedKey(KeyOf)) =>
        /\ ~flagResult.ok
        /\ "key" \in ErrorSubjects

\* a flag that is valid but for its 101-character key was rejected
C7_Witness ==
    /\ pc = "returned"
    /\ HasStringKey
    /\ KeyOf = Repeat("a", 101)
    /\ validateSchema(WithKey(flagData, <<"o", "k">>), FLAG_SCHEMA) = <<>>
    /\ ~flagResult.ok

RequiredFields == {"key", "name", "active"}

IsMissing(field) ==
    ~HasOwn(flagData, field) \/ Kind(Get(flagData, field)) \in {"undefined", "null"}

\* C8: a flag object in which key, name or active is absent, undefined or
\* null is rejected, with a violation naming each missing field.
C8_MissingRequiredReported ==
    (pc = "returned" /\ IsFlagObject) =>
        \A f \in RequiredFields :
            IsMissing(f) =>
                (~flagResult.ok /\ HasError(f, "Missing required field"))

\* a flag without any of the three fields was rejected
C8_Witness ==
    /\ pc = "returned"
    /\ IsFlagObject
    /\ \A f \in RequiredFields : IsMissing(f)
    /\ RequiredFields \subseteq ErrorSubjects

\* the three arrays whose elements carry a rollout_percentage, by the path
\* the validator prints for them
RolloutArrays ==
    [ groups |->
        [ path |-> "filters.groups",
          items |-> ArrayField(Field(flagData, "filters"), "groups") ],
      multivariate |->
        [ path |-> "filters.multivariate.variants",
          items |-> ArrayField(Field(Field(flagData, "filters"), "multivariate"),
                               "variants") ],
      variants |->
        [ path |-> "variants",
          items |-> ArrayField(flagData, "variants") ] ]

\* the path of element number n (counted from 0) of the array printed as path
RolloutPath(path, n) == path \o "[" \o ToString(n) \o "].rollout_percentage"

\* C9: a numeric rollout_percentage outside [0,100] at any index of
\* filters.groups, filters.multivariate.variants or variants is rejected
\* with a violation whose path names that exact element; a value within
\* [0,100], the ends included, is not a violation.
C9_RolloutRangeLocated ==
    (pc = "returned" /\ IsFlagObject) =>
        \A a \in DOMAIN RolloutArrays :
            LET arr == RolloutArrays[a]
            IN  \A i \in 1..Len(arr.items) :
                    LET r == Field(arr.items[i], "rollout_percentage")
                        where == RolloutPath(arr.path, i - 1)
                    IN  Kind(r) = "number" =>
                            IF Payload(r) < 0 \/ Payload(r) > 100
                            THEN ~flagResult.ok /\ where \in ErrorSubjects
                            ELSE where \notin ErrorSubjects

\* the third group has a rollout_percentage of 101 and the first of 100:
\* only filters.groups[2].rollout_percentage was reported
C9_Witness ==
    /\ pc = "returned"
    /\ IsFlagObject
    /\ Len(RolloutArrays.groups.items) = 3
    /\ Field(RolloutArrays.groups.items[3], "rollout_percentage") = Num(101)
    /\ Field(RolloutArrays.groups.items[1], "rollout_percentage") = Num(100)
    /\ "filters.groups[2].rollout_percentage" \in ErrorSubjects
    /\ "filters.groups[0].rollout_percentage" \notin ErrorSubjects

DeclaredProperties == DOMAIN FLAG_SCHEMA.properties[1]

\* what is wrong with the flag, field by field, as the data model has it:
\* the subjects a complete report must hold
ExpectedSubjects ==
    LET key == Field(flagData, "key")
        name == Field(flagData, "name")
        active == Field(flagData, "active")
        description == Field(flagData, "description")
        ensure == Field(flagData, "ensure_experience_continues")
    IN  {f \in RequiredFields : IsMissing(f)}
        \cup {"key" : x \in {1} \cap
                (IF Kind(key) = "string" /\ IsWellFormedKey(Payload(key))
                 THEN {} ELSE {1})}
        \cup {"name" : x \in {1} \cap
                (IF Kind(name) = "string" /\ Len(Payload(name)) \in 1..200
                 THEN {} ELSE {1})}
        \cup {"active" : x \in {1} \cap
                (IF Kind(active) = "boolean" THEN {} ELSE {1})}
        \cup {"description" : x \in {1} \cap
                (IF \/ ~HasOwn(flagData, "description")
                    \/ Kind(description) = "string" /\ Len(Payload(description)) <= 1000
                 THEN {} ELSE {1})}
        \cup {"ensure_experience_continues" : x \in {1} \cap
                (IF \/ ~HasOwn(flagData, "ensure_experience_continues")
                    \/ Kind(ensure) = "boolean"
                 THEN {} ELSE {1})}
        \cup {Payload(flagData)[i][1] : i \in
                {j \in 1..Len(Payload(flagData)) :
                    Payload(flagData)[j][1] \notin
                        DeclaredProperties \cup ObjectPrototypeNames}}
        \cup UNION { {RolloutPath(RolloutArrays[a].path, i - 1) : i \in
                        {j \in 1..Len(RolloutArrays[a].items) :
                            LET r == Field(RolloutArrays[a].items[j], "rollout_percentage")
                            IN  \/ Kind(r) \notin {"number", "undefined"}
                                \/ Kind(r) = "number" /\ (Payload(r) < 0 \/ Payload(r) > 100)}}
                     : a \in DOMAIN RolloutArrays }

\* the elements of the two variant arrays and of every group's properties
\* array, each as <<path of the element, element>>
VariantElements ==
    UNION { { <<arr.path \o "[" \o ToString(i - 1) \o "]", arr.items[i]>> :
                i \in 1..Len(arr.items) }
            : arr \in {RolloutArrays.multivariate, RolloutArrays.variants} }

GroupPropertyElements ==
    LET groups == RolloutArrays.groups.items
    IN  UNION { { << "filters.groups[" \o ToString(g - 1) \o "].properties["
                         \o ToString(i - 1) \o "]",
                     ArrayField(groups[g], "properties")[i] >> :
                    i \in 1..Len(ArrayField(groups[g], "properties")) }
                : g \in 1..Len(groups) }

\* the required fields of the nested item schemas that an element lacks,
\* each as <<path of the element, field>>
NestedMissing ==
    { <<x[1][1], x[2]>> : x \in
        { y \in (VariantElements \X {"key", "rollout_percentage"})
                    \cup (GroupPropertyElements \X {"key", "value"}) :
            Kind(y[1][2]) = "object" /\ ~HasOwn(y[1][2], y[2]) } }

\* C10: the report is complete: when several fields of the flag are in
\* violation, top-level or nested and in any combination, each of them is
\* the subject of an entry of the thrown error's list.
C10_Claim ==
    (/\ pc = "returned"
     /\ IsFlagObject
     /\ Cardinality(ExpectedSubjects) + Cardinality(NestedMissing) >= 2) =>
        /\ ~flagResult.ok
        /\ ExpectedSubjects \subseteq ErrorSubjects
        /\ \A m \in NestedMissing :
               m[1] \in ErrorSubjects \/ (m[1] \o "." \o m[2]) \in ErrorSubjects

\* what holds of the completeness of the report: every violation of a type,
\* length, pattern or range constraint, every missing top-level field and
\* every undeclared top-level property is reported, in any combination
C10_DetectedViolationsReported ==
    (pc = "returned" /\ IsFlagObject) =>
        /\ ExpectedSubjects \subseteq ErrorSubjects
        /\ Len(flagResult.errors) >= Cardinality(ExpectedSubjects)
        /\ ExpectedSubjects # {} => ~flagResult.ok

\* the names of the flag's own top-level properties that FLAG_SCHEMA does
\* not declare
UndeclaredNames ==
    {Payload(flagData)[i][1] : i \in 1..Len(Payload(flagData))} \ DeclaredProperties

\* C11: validateFlagSchema rejects every flag object that has a top-level
\* property whose name is not one of the declared ones (key, name, active,
\* description, filters, ensure_experience_continues, variants), whatever
\* the name of that property.
C11_Claim ==
    (pc = "returned" /\ IsFlagObject /\ UndeclaredNames # {}) => ~flagResult.ok

\* C12: the required fields of the nested item schemas are enforced: a flag
\* in which an element of variants or of filters.multivariate.variants
\* lacks key or rollout_percentage, or in which a filter-group property
\* lacks key or value, is rejected.
C12_Claim ==
    (pc = "returned" /\ IsFlagObject /\ NestedMissing # {}) => ~flagResult.ok

(***************************************************************************)
(* Properties of the size guard.                                           *)
(***************************************************************************)
\* the limit in force: the argument, or the default of 1 MiB
EffectiveLimit ==
    IF maxSizeBytes = Undefined THEN DefaultMaxSizeBytes ELSE Payload(maxSizeBytes)

IsExistingFile == ~bunFile.fails /\ bunFile.exists

IsFileTooLarge(r) ==
    /\ ~r.ok
    /\ r.name = "ValidationError"
    /\ r.message = "File size exceeds maximum allowed size"

\* C13: validateFileSize(path, maxBytes) on an existing file succeeds if and
\* only if the file's size is at most maxBytes (exactly maxBytes succeeds,
\* maxBytes + 1 fails); the failure is the file-too-large ValidationError
\* and carries the path, the size and the limit.
C13_SucceedsIffWithinLimit ==
    (pc = "returned" /\ IsExistingFile) =>
        /\ sizeResult.ok <=> bunFile.size <= EffectiveLimit
        /\ ~sizeResult.ok =>
              /\ IsFileTooLarge(sizeResult)
              /\ sizeResult.context =
                     [filePath |-> filePath.chars, fileSize |-> bunFile.size,
                      maxSize |-> EffectiveLimit]

\* a file one byte over an explicit limit is refused
C13_Witness ==
    /\ pc = "returned"
    /\ IsExistingFile
    /\ maxSizeBytes # Undefined
    /\ bunFile.size = EffectiveLimit + 1
    /\ IsFileTooLarge(sizeResult)

\* C14: validateFileSize never resolves for a path that does not exist: it
\* rejects with the file-not-found ValidationError; and whatever fails
\* (missing file, oversize, a failure of the underlying stat), the promise
\* rejects with a ValidationError: no failure is swallowed and no error of
\* another class escapes.
C14_FailuresSurfaceAsValidationError ==
    pc = "returned" =>
        /\ ~IsExistingFile => ~sizeResult.ok
        /\ (~bunFile.fails /\ ~bunFile.exists) =>
              /\ sizeResult.message = "File does not exist"
              /\ sizeResult.context.filePath = filePath.chars
        /\ ~sizeResult.ok => sizeResult.name = "ValidationError"
        /\ sizeResult.ok => IsExistingFile /\ bunFile.size <= EffectiveLimit

\* the stat itself failed and the caller got a ValidationError for it
C14_Witness ==
    /\ pc = "returned"
    /\ bunFile.fails
    /\ ~sizeResult.ok
    /\ sizeResult.name = "ValidationError"
    /\ sizeResult.message = "Failed to check file size"

(***************************************************************************)
(* Properties of the commands.                                             *)
(***************************************************************************)
RECURSIVE Ascending(_)
\* the members of a set of numbers, smallest first
Ascending(S) == IF S = {} THEN <<>> ELSE <<Min(S)>> \o Ascending(S \ {Min(S)})

IsGenerate == command \in {"generateFlags", "generate"}

IsSync == command \in {"syncFlags", "sync"}

\* positions in io of the create and update calls
RemoteWrites ==
    {k \in DOMAIN io : io[k].op = "fetch" /\ io[k].arg \in {"POST", "PATCH"}}

\* whether step op on file f has been taken with outcome ok before position k
Before(k, op, f, ok) ==
    \E j \in 1..(k - 1) : io[j].op = op /\ io[j].file = f /\ io[j].ok = ok

Done(op, f, ok) == Before(Len(io) + 1, op, f, ok)

\* the files validateFlagSchema has returned for, in enumeration order
Validated == Ascending({f \in 1..Len(files) : Done("validateFlagSchema", f, TRUE)})

\* the files whose parsing or validation has failed
Malformed ==
    {f \in 1..Len(files) :
        Done("JSON.parse", f, FALSE) \/ Done("validateFlagSchema", f, FALSE)}

\* C15: no flag record reaches the generated output (generateFlags) or a
\* create/update call (syncFlags) unless validateFlagSchema has returned for
\* that record earlier in the run; a file that fails parsing or validation
\* contributes nothing to the output and triggers no remote call.
C15_OnlyValidatedRecordsUsed ==
    /\ \A i \in 1..Len(flagConfigs) :
          /\ i <= Len(Validated)
          /\ Validated[i] \notin Malformed
          /\ flagConfigs[i] = files[Validated[i]].content
          /\ keys[i] = Get(flagConfigs[i], "key")
          /\ validateFlagSchema(flagConfigs[i], <<>>).ok
    /\ written.ok =>
          /\ Len(written.FeatureFlags) = Len(flagConfigs)
          /\ \A i \in 1..Len(flagConfigs) : written.FeatureFlags[i].value = keys[i]
          /\ written.hasLocal =>
                /\ Len(written.LocalFeatureFlags) = Len(flagConfigs)
                /\ \A i \in 1..Len(flagConfigs) :
                      written.LocalFeatureFlags[i].key = keys[i]
    /\ \A k \in RemoteWrites :
          /\ Before(k, "validateFlagSchema", io[k].file, TRUE)
          /\ io[k].file \notin Malformed
          /\ validateFlagSchema(files[io[k].file].content, <<>>).ok

\* a run of generateFlags over a flag without its name and a valid flag has
\* written the valid one alone
C15_Witness ==
    /\ IsGenerate
    /\ pc = "resolved"
    /\ Len(files) = 2
    /\ Done("validateFlagSchema", 1, FALSE)
    /\ Done("validateFlagSchema", 2, TRUE)
    /\ written.ok
    /\ Len(written.FeatureFlags) = 1

\* positions in io of the reads of flag files
FileReads == {k \in DOMAIN io : io[k].op = "readFileSync"}

\* C16: in every command that loads flag files (generateFlags, syncFlags and
\* the CLI's validate command), each flag file passes validateFileSize before
\* its content is read and parsed, so a file larger than the limit is never
\* read or parsed.
C16_Claim ==
    \A k \in FileReads :
        /\ Before(k, "validateFileSize", io[k].file, TRUE)
        /\ files[io[k].file].entry.size <= DefaultMaxSizeBytes

\* positions in io of the accesses to the file system made through the
\* configured path named root
Accesses(root) ==
    {k \in DOMAIN io :
        /\ io[k].arg = root
        /\ io[k].op \in {"existsSync", "scan", "validateFileSize", "readFileSync",
                         "import", "write", "write .gitkeep"}}

\* whether the configured path named root has passed the path guard before
\* position k
Guarded(k, root) ==
    \E j \in 1..(k - 1) : io[j].op = "validatePath" /\ io[j].arg = root /\ io[j].ok

\* C17 as stated: in generateFlags, syncFlags and the CLI's validate command,
\* flagsDir and outputFile have both passed the path guard before the command
\* makes any access to the file system.
C17_Original ==
    \A k \in Accesses("flagsDir") \cup Accesses("outputFile") :
        Guarded(k, "flagsDir") /\ Guarded(k, "outputFile")

\* C17: each configured path (flagsDir, outputFile, the config path) has
\* passed the path guard before the command makes any access to the file
\* system through that path, and the access is made at the path the guard
\* returned, which lies inside the working directory.
C17_GuardedBeforeAccess ==
    /\ \A root \in {"flagsDir", "outputFile", "configPath"} :
          \A k \in Accesses(root) : Guarded(k, root)
    /\ Accesses("flagsDir") # {} =>
          /\ safeFlagsDir = validatePath(config.flagsDir, Cwd).path
          /\ IsWithin(safeFlagsDir, Cwd)
    /\ Accesses("outputFile") # {} =>
          /\ pathResult.path = validatePath(config.outputFile, Cwd).path
          /\ IsWithin(pathResult.path, Cwd)

\* a run of the CLI's generate command has loaded its configuration, read a
\* flag file and written the output file
C17_Witness ==
    /\ command = "generate"
    /\ pc = "resolved"
    /\ Accesses("configPath") # {}
    /\ \E k \in Accesses("flagsDir") : io[k].op = "readFileSync"
    /\ \E k \in Accesses("outputFile") : io[k].op = "write" /\ io[k].ok

\* positions in io of the calls of the path guard that threw
GuardFailures == {k \in DOMAIN io : io[k].op = "validatePath" /\ ~io[k].ok}

\* positions in io of the writes of the output file
OutputWrites == {k \in DOMAIN io : io[k].op \in {"write", "write .gitkeep"}}

\* C18: whenever flagsDir, outputFile or the config path fails the path
\* guard, the command ends with an error (the rejection of the call with the
\* ValidationError, or exit code 1): the failure is the last thing the
\* command does but for the report of the error, and in that run no output
\* file is written and no create or update call is made.
C18_GuardFailureAborts ==
    \A k \in GuardFailures :
        /\ pc \in {"rejected", "exit1", "getConfigPath.catch"}
        /\ pc = "rejected" <=> ~cli
        /\ ~pathResult.ok
        /\ \A j \in (k + 1)..Len(io) : io[j].op = "console.error"
        /\ OutputWrites = {}
        /\ RemoteWrites = {}
        /\ ~written.ok

\* generateFlags has read two valid flags and then found outputFile to lie
\* outside the working directory
C18_Witness ==
    /\ command = "generateFlags"
    /\ pc = "rejected"
    /\ Len(flagConfigs) = 2
    /\ \E k \in GuardFailures : io[k].arg = "outputFile"
    /\ pathResult.message = PathTraversalMessage

\* the steps the loop takes on one flag file
FileSteps == {"validateFileSize", "readFileSync", "JSON.parse", "validateFlagSchema"}

\* positions in io of the steps on a flag file that failed
FileFailures == {k \in DOMAIN io : io[k].op \in FileSteps /\ ~io[k].ok}

\* the files that are within the size limit, can be read, hold JSON and hold
\* a flag the schema accepts, in enumeration order
Loadable ==
    Ascending({f \in 1..Len(files) :
                  /\ files[f].entry.size <= DefaultMaxSizeBytes
                  /\ files[f].readable
                  /\ Kind(files[f].content) # "invalid"
                  /\ validateFlagSchema(files[f].content, <<>>).ok})

\* the last thing the command did apart from printing
LastStep ==
    LET steps == {k \in DOMAIN io : io[k].op \notin {"console.log", "console.error"}}
    IN  IF steps = {} THEN Event("none", "", 0, TRUE) ELSE io[Max(steps)]

\* C19: generateFlags does not abort when a flag file fails the size check,
\* the read, JSON parsing or schema validation: it prints the error and goes
\* on with the remaining files, no such failure ends the run, and what a run
\* that resolves has written holds one entry of FeatureFlags (and, when local
\* configs are included, of LocalFeatureFlags) for exactly the files that
\* passed every step, in enumeration order, the two lists aligned.
C19_GenerateSkipsBadFiles ==
    IsGenerate =>
        /\ \A k \in FileFailures :
              \/ k = Len(io) /\ pc = "gen.catch"
              \/ /\ k < Len(io)
                 /\ io[k + 1].op = "console.error"
                 /\ io[k + 1].file = io[k].file
        /\ pc \in {"rejected", "exit1"} => LastStep.op \notin FileSteps
        /\ pc \in {"gen.output", "gen.write"} =>
              \A f \in 1..Len(files) : \E k \in DOMAIN io : io[k].file = f
        /\ (pc = "resolved" /\ files # <<>>) =>
              /\ written.ok
              /\ Len(written.FeatureFlags) = Len(Loadable)
              /\ \A i \in 1..Len(Loadable) :
                    written.FeatureFlags[i].value = Get(files[Loadable[i]].content, "key")
              /\ written.hasLocal = config.generation.includeLocalConfigs
              /\ written.hasLocal =>
                    /\ Len(written.LocalFeatureFlags) = Len(Loadable)
                    /\ \A i \in 1..Len(Loadable) :
                          LET flag == files[Loadable[i]].content
                              entry == written.LocalFeatureFlags[i]
                          IN  /\ entry.name = written.FeatureFlags[i].name
                              /\ entry.key = Get(flag, "key")
                              /\ entry.flagName = Get(flag, "name")
                              /\ entry.enabled = Get(flag, "active")

\* a run over a file beyond the size limit and a valid flag has resolved and
\* written both lists with the valid flag alone
C19_Witness ==
    /\ IsGenerate
    /\ pc = "resolved"
    /\ Len(files) = 2
    /\ \E k \in FileFailures : io[k].op = "validateFileSize" /\ io[k].file = 1
    /\ written.ok
    /\ written.hasLocal
    /\ Len(written.LocalFeatureFlags) = 1

\* positions in io of the steps of syncFlags on a flag file that failed: the
\* read, the parse, the validation, the create or update call
SyncFailures == FileFailures \cup {k \in RemoteWrites : ~io[k].ok}

Completed ==
    \E k \in DOMAIN io : io[k].arg = "Feature flags sync completed successfully"

\* C20: syncFlags exits with code 1 on the first flag file whose read, JSON
\* parse, schema validation or remote call fails: the failure is printed and
\* is the last thing the run does, so no create or update call is issued for
\* a later file and the sync is never reported as completed successfully.
C20_SyncStopsAtFirstFailure ==
    IsSync =>
        \A k \in SyncFailures :
            /\ \/ k = Len(io) /\ pc = "sync.catch"
               \/ /\ Len(io) = k + 1
                  /\ io[k + 1] = Event("console.error", "Error processing", io[k].file, TRUE)
                  /\ pc = "exit1"
            /\ \A j \in RemoteWrites : j <= k /\ io[j].file <= io[k].file
            /\ \A f \in (io[k].file + 1)..Len(files) :
                  \A j \in DOMAIN io : io[j].file # f
            /\ ~Completed

\* syncFlags has created the first flag, found the second file to hold a
\* flag without its name, and exited
C20_Witness ==
    /\ IsSync
    /\ pc = "exit1"
    /\ Len(files) = 2
    /\ \E k \in RemoteWrites : io[k].file = 1 /\ io[k].ok /\ io[k].arg = "POST"
    /\ \E k \in SyncFailures : io[k].file = 2 /\ io[k].op = "validateFlagSchema"

\* positions in io of the requests for the list of all flags
ListFetches == {k \in DOMAIN io : io[k].op = "fetch" /\ io[k].arg = "GET"}

\* positions in io of the create and update calls made for file f
RemoteWritesFor(f) == {k \in RemoteWrites : io[k].file = f}

\* the ids of the fetched flags that have the key
IdsOf(key) == {allFlags[i].id : i \in {j \in 1..Len(allFlags) : Str(allFlags[j].key) = key}}

\* C21: syncFlags fetches the list of existing flags once, before any create
\* or update call, and issues exactly one remote call for each validated flag
\* file: an update (PATCH addressed by the id of the existing flag, body
\* without key) when a flag with the same key is in the fetched list,
\* otherwise a create (POST, body with the key).
C21_OneFetchOneCallPerFile ==
    IsSync =>
        /\ Cardinality(ListFetches) <= 1
        /\ pc \in {"sync.read", "sync.validate", "sync.remote", "sync.done"} =>
              \E k \in ListFetches : io[k].ok
        /\ \A k \in RemoteWrites : \E j \in ListFetches : j < k /\ io[j].ok
        /\ \A f \in 1..Len(files) :
              /\ Cardinality(RemoteWritesFor(f)) <= 1
              /\ RemoteWritesFor(f) # {} => Done("validateFlagSchema", f, TRUE)
              /\ (Done("validateFlagSchema", f, TRUE) /\ (f < index \/ pc = "resolved"))
                    => RemoteWritesFor(f) # {}
        /\ Len(requests) = Cardinality(RemoteWrites)
        /\ \A n \in 1..Len(requests) :
              LET k == Ascending(RemoteWrites)[n]
                  flag == files[io[k].file].content
                  key == Get(flag, "key")
                  request == requests[n]
              IN  /\ io[k].arg = request.method
                  /\ Get(request.body, "name") = Get(flag, "name")
                  /\ Get(request.body, "active") = Get(flag, "active")
                  /\ IF IdsOf(key) # {}
                     THEN /\ request.method = "PATCH"
                          /\ Len(request.url) = 2
                          /\ request.url[2] \in IdsOf(key)
                          /\ ~HasOwn(request.body, "key")
                     ELSE /\ request.method = "POST"
                          /\ request.url = <<"feature_flags">>
                          /\ Get(request.body, "key") = key

\* a run has updated the flag "a", which PostHog held under id 7, and
\* created the flag "b-c", which it did not hold
C21_Witness ==
    /\ IsSync
    /\ pc = "resolved"
    /\ Len(allFlags) = 1
    /\ Len(requests) = 2
    /\ requests[1].method = "PATCH"
    /\ requests[1].url = <<"feature_flags", 7>>
    /\ requests[2].method = "POST"
    /\ Get(requests[2].body, "key") = Str(<<"b", "-", "c">>)

CredentialsMissing ==
    IsFalsy(config.posthog.projectId) \/ IsFalsy(config.posthog.apiToken)

CredentialsRequired ==
    Event("console.error", "PostHog project ID and API token are required", 0, TRUE)

\* the positions of a CLI run before its command function is called
BeforeCommand ==
    \/ pc \in {"getConfigPath", "getConfigPath.catch", "loadConfig", "loadConfig.exists"}
    \/ pc = "validatePath" /\ ret.what = "configPath"

\* C22: when posthog.projectId or posthog.apiToken is empty, syncFlags
\* reports that both are required and exits with code 1 before it validates
\* a path, touches the file system or sends a request.
C22_CredentialsCheckedFirst ==
    (IsSync /\ CredentialsMissing) =>
        /\ \A k \in DOMAIN io :
              /\ io[k].op = "validatePath" => io[k].arg = "configPath"
              /\ io[k].op # "fetch"
        /\ Accesses("flagsDir") = {} /\ Accesses("outputFile") = {}
        /\ requests = <<>>
        /\ BeforeCommand \/ pc \in {"syncFlags", "exit1", "rejected"}
        /\ command = "syncFlags" =>
              \/ pc = "syncFlags" /\ io = <<>>
              \/ pc = "exit1" /\ io = <<CredentialsRequired>>
        /\ (\E k \in DOMAIN io : io[k] = CredentialsRequired) =>
              pc = "exit1" /\ io[Len(io)] = CredentialsRequired

\* syncFlags, called without an API token, has reported it and exited
C22_Witness ==
    /\ command = "syncFlags"
    /\ ~IsFalsy(config.posthog.projectId)
    /\ IsFalsy(config.posthog.apiToken)
    /\ pc = "exit1"
    /\ io = <<CredentialsRequired>>

(***************************************************************************)
(* The schema validator called again and again, on the files of a          *)
(* directory in any order.  A call is two steps: validateSchema begins     *)
(* with its own empty errors array, then pushes what it finds and          *)
(* validateFlagSchema returns or throws.  io holds the outcome of every    *)
(* call: the file, the errors, whether the flag was accepted.              *)
(***************************************************************************)
RepeatContents ==
    { Obj(ValidRequired),
      Obj(One("key", Str(<<"d">>)) \o One("active", Bool(TRUE))),
      Obj(One("key", Str(<<"-">>)) \o One("name", Num(1)) \o One("active", Bool(TRUE))),
      JNull }

InitRepeat ==
    /\ pc = "idle"
    /\ files \in SeqsUpTo(RepeatContents, MaxFiles) \ {<<>>}
    /\ index = 0
    /\ io = <<>>
    /\ flagData = Undefined
    /\ fileName = <<>>
    /\ flagResult = NoFlagResult
    /\ command = "none"
    /\ cli = FALSE
    /\ configPath = JsString(<<>>)
    /\ config = DefaultConfig(NoEnv)
    /\ env = NoEnv
    /\ userConfig = NoUserConfig
    /\ safeFlagsDir = <<>>
    /\ json = NoJson
    /\ keys = <<>>
    /\ flagConfigs = <<>>
    /\ allFlags = <<>>
    /\ requests = <<>>
    /\ hasErrors = FALSE
    /\ written = NoWritten
    /\ hook = NoHook
    /\ ret = NoReturn
    /\ filePath = JsString(<<>>)
    /\ basePath = Cwd
    /\ pathResult = NoResult
    /\ prevResult = NoResult
    /\ NoFileSizeCall

ErrorsAtEntry_Kept(errors) == errors

\* const errors: string[] = []
ErrorsAtEntry(errors) == <<>>

\* validateFlagSchema(flagData, fileName) is called on one of the files, and
\* validateSchema starts
EnterValidateSchema ==
    /\ pc = "idle"
    /\ Len(io) < MaxCalls
    /\ \E f \in 1..Len(files) :
         /\ index' = f
         /\ flagData' = files[f]
         /\ fileName' = <<ToString(f) \o ".json">>
    /\ flagResult' = [ok |-> FALSE, message |-> "running",
                      errors |-> ErrorsAtEntry(flagResult.errors), value |-> Undefined]
    /\ pc' = "validateSchema"
    /\ UNCHANGED <<hookVars, command, cli, configVars, dirVars, json, genVars, remoteVars,
                   hasErrors, io, ret, pathVars, sizeVars>>

\* validateSchema pushes the violations it finds and returns the array;
\* validateFlagSchema throws when the array is not empty
ReturnValidateSchema ==
    /\ pc = "validateSchema"
    /\ LET errors == flagResult.errors \o validateSchema(flagData, FLAG_SCHEMA)
       IN  /\ flagResult' =
                 IF Len(errors) > 0
                 THEN FlagThrown("Feature flag validation failed in " \o fileName[1],
                                 errors)
                 ELSE FlagReturned(flagData)
           /\ io' = io \o <<Event("validateFlagSchema", errors, index, errors = <<>>)>>
    /\ pc' = "idle"
    /\ UNCHANGED <<hookVars, command, cli, configVars, dirVars, loopVars, genVars, remoteVars,
                   hasErrors, ret, flagData, fileName, pathVars, sizeVars>>

NextRepeat == EnterValidateSchema \/ ReturnValidateSchema

SpecRepeat == InitRepeat /\ [][NextRepeat]_vars

(***************************************************************************)
(* createUseFeatureFlagEnabled (react-hooks.ts): the hook it returns, and  *)
(* the invocations of that hook by a component.                            *)
(***************************************************************************)

\* How often a component invokes the hook in one behaviour.
MaxInvocations == 2

\* The flag names a component passes to the hook.
HookFlags ==
    { <<"a">>, <<"b", "-", "c">>, <<"b", "_", "c">>, <<"b", "-", "c", "-", "d">>,
      <<"v", "a", "l", "u", "e", "O", "f">>, <<"z">> }

LocalFlag(key, enabled) == [key |-> key, name |-> key, enabled |-> enabled]

\* The generated LocalFeatureFlags objects handed to createUseFeatureFlagEnabled,
\* as functions from property name to LocalFeatureFlagConfig.
LocalFeatureFlagSets ==
    { <<>>,
      (<<"a">> :> LocalFlag(<<"a">>, TRUE))
          @@ (<<"b", "_", "c">> :> LocalFlag(<<"b", "-", "c">>, TRUE)),
      (<<"a">> :> LocalFlag(<<"a">>, FALSE))
          @@ (<<"b", "_", "c", "_", "d">> :> LocalFlag(<<"b", "-", "c", "-", "d">>, TRUE))
          @@ (<<"b", "-", "c">> :> LocalFlag(<<"b", "-", "c">>, TRUE)) }

\* What the PostHog hook answers: boolean | undefined.
PostHogAnswers == {Bool(TRUE), Bool(FALSE), Undefined}

\* The names every object inherits from Object.prototype, as far as HookFlags
\* holds them; none of the inherited members has an enabled property.
InheritedNames == { <<"v", "a", "l", "u", "e", "O", "f">> }

\* JavaScript's a ?? b.
Nullish(value, fallback) ==
    IF Kind(value) \in {"undefined", "null"} THEN fallback ELSE value

\* flag.replace(/-/g, '_') without the g flag: only the first hyphen.
ReplaceHyphens_First(flag) ==
    IF \E i \in 1..Len(flag) : flag[i] = "-"
    THEN LET first == CHOOSE i \in 1..Len(flag) :
                          flag[i] = "-" /\ \A j \in 1..(i - 1) : flag[j] # "-"
         IN  [i \in 1..Len(flag) |-> IF i = first THEN "_" ELSE flag[i]]
    ELSE flag

\* flag.replace(/-/g, '_')
ReplaceHyphens(flag) ==
    [i \in 1..Len(flag) |-> IF flag[i] = "-" THEN "_" ELSE flag[i]]

\* LocalFeatureFlags[flagKey]?.enabled: a property read, prototype chain included.
LocalEnabled(LocalFeatureFlags, flagKey) ==
    IF flagKey \in DOMAIN LocalFeatureFlags
    THEN Bool(LocalFeatureFlags[flagKey].enabled)
    ELSE IF flagKey \in InheritedNames THEN Undefined  \* a function without enabled
    ELSE Undefined                                      \* undefined?.enabled

InitHook ==
    /\ pc = "idle"
    /\ filePath = JsString(<<>>)
    /\ basePath = Cwd
    /\ pathResult = NoResult
    /\ prevResult = NoResult
    /\ flagData = Undefined
    /\ fileName = <<>>
    /\ flagResult = NoFlagResult
    /\ NoFileSizeCall
    /\ command = "none"
    /\ cli = FALSE
    /\ configPath = JsString(<<>>)
    /\ config = DefaultConfig(NoEnv)
    /\ env = NoEnv
    /\ userConfig = NoUserConfig
    /\ safeFlagsDir = <<>>
    /\ files = <<>>
    /\ index = 0
    /\ json = NoJson
    /\ keys = <<>>
    /\ flagConfigs = <<>>
    /\ allFlags = <<>>
    /\ requests = <<>>
    /\ hasErrors = FALSE
    /\ io = <<>>
    /\ written = NoWritten
    /\ ret = NoReturn
    /\ \E local \in LocalFeatureFlagSets, isDevelopment \in PostHogAnswers,
          debug \in BOOLEAN :
           hook = [NoHook EXCEPT !.LocalFeatureFlags = local,
                                 !.isDevelopment = isDevelopment,
                                 !.debug = debug]

\* One invocation of the returned hook, useFeatureFlagEnabled(flag).  answer is
\* what the PostHog hook returns this time, detected what
\* detectDevelopmentMode() finds in the environment.
useFeatureFlagEnabled ==
    /\ hook.invocations < MaxInvocations
    /\ \E flag \in HookFlags, answer \in PostHogAnswers, detected \in BOOLEAN :
           LET isDevMode == Payload(Nullish(hook.isDevelopment, Bool(detected)))
               flagKey == ReplaceHyphens(flag)
               enabled == LocalEnabled(hook.LocalFeatureFlags, flagKey)
           IN  hook' = [hook EXCEPT
                   !.flag = flag,
                   !.posthogEnabled = answer,
                   !.isDevMode = isDevMode,
                   !.invocations = @ + 1,
                   !.posthogCalls = Append(@, flag),
                   !.logs = IF isDevMode /\ hook.debug THEN @ + 1 ELSE @,
                   !.result = IF isDevMode THEN Nullish(enabled, Bool(FALSE))
                              ELSE Nullish(answer, Bool(FALSE))]
    /\ UNCHANGED <<pc, callVars, command, cli, configVars, dirVars, loopVars, genVars,
                   remoteVars, hasErrors, io, ret>>

NextHook == useFeatureFlagEnabled

SpecHook == InitHook /\ [][NextHook]_vars

(***************************************************************************)
(* generateTypeScriptContent called with the keys and flags of two         *)
(* validated flag files, under each naming convention.                     *)
(***************************************************************************)

\* the keys of KeyStrings that validateFlagSchema accepts
ValidKeys == {k \in KeyStrings : MatchesHyphenated(k) \/ MatchesSingle(k)}

NamingConventions == {"camelCase", "snake_case", "SCREAMING_SNAKE_CASE"}

InitNaming ==
    /\ pc = "idle"
    /\ \E k1 \in ValidKeys : \E k2 \in ValidKeys \ {k1} :
         /\ keys = <<Str(k1), Str(k2)>>
         /\ flagConfigs =
                [i \in 1..2 |-> Obj(One("key", Str(<<k1, k2>>[i]))
                                    \o One("name", Str(<<"T">>))
                                    \o One("active", Bool(TRUE)))]
    /\ \E local \in BOOLEAN, convention \in NamingConventions :
         config = Config(JsString(<<"f">>), JsString(<<"o">>), <<"p">>, <<"t">>,
                         local, convention)
    /\ written = NoWritten
    /\ command = "generateTypeScriptContent"
    /\ cli = FALSE
    /\ configPath = JsString(<<>>)
    /\ env = NoEnv
    /\ userConfig = NoUserConfig
    /\ safeFlagsDir = <<>>
    /\ files = <<>>
    /\ index = 0
    /\ json = NoJson
    /\ allFlags = <<>>
    /\ requests = <<>>
    /\ hasErrors = FALSE
    /\ io = <<>>
    /\ hook = NoHook
    /\ ret = NoReturn
    /\ filePath = JsString(<<>>)
    /\ basePath = Cwd
    /\ pathResult = NoResult
    /\ prevResult = NoResult
    /\ flagData = Undefined
    /\ fileName = <<>>
    /\ flagResult = NoFlagResult
    /\ NoFileSizeCall

CallGenerateTypeScriptContent ==
    /\ pc = "idle"
    /\ written' = generateTypeScriptContent(keys, flagConfigs, config)
    /\ pc' = "returned"
    /\ UNCHANGED <<callVars, hookVars, command, cli, configVars, dirVars, loopVars, keys,
                   flagConfigs, remoteVars, hasErrors, io, ret>>

NextNaming == CallGenerateTypeScriptContent

SpecNaming == InitNaming /\ [][NextNaming]_vars

IsValidate == command = "validate"

\* existsSync(safeFlagsDir) has answered false
FlagsDirMissing ==
    \E k \in DOMAIN io : io[k] = Event("existsSync", "flagsDir", 0, FALSE)

\* a file has failed JSON parsing or schema validation
ParseOrSchemaFailure ==
    \E k \in FileFailures : io[k].op \in {"JSON.parse", "validateFlagSchema"}

\* the configuration could not be loaded: the import failed or what was
\* loaded is no valid configuration
ConfigNotLoaded ==
    \E k \in DOMAIN io : io[k] = Event("console.error", "Error loading config file", 0, TRUE)

AllValidReported == io # <<>> /\ io[Len(io)].arg = "All flags are valid"

ConfigFileSeen(exists) ==
    \E k \in DOMAIN io : io[k] = Event("existsSync", "configPath", 0, exists)

\* what a field of posthog is when the user config does not set it: the
\* value of the environment variable, or the built-in default
EnvOrBuiltIn(field) ==
    JsString(IF field = "host" /\ env.host = <<>> THEN <<"h">> ELSE env[field])

BuiltIn ==
    [flagsDir |-> JsString(<<"f", "f">>),
     outputFile |-> JsString(<<"s", "/", "f", "f">>),
     generation |-> [includeLocalConfigs |-> TRUE, namingConvention |-> "snake_case"]]

\* whether the user config sets the field of the section
Sets(section, field) ==
    /\ section \in DOMAIN userConfig
    /\ field \in DOMAIN userConfig[section]

\* C25: loadConfig returns the default configuration, with the values of
\* POSTHOG_HOST, POSTHOG_PROJECT_ID and POSTHOG_API_TOKEN in place of the
\* built-in defaults, when the config file does not exist; when it exists,
\* each value the user config sets overrides the environment value and the
\* default, field by field inside posthog and generation; and a failure to
\* load or validate the file rejects the call instead of yielding defaults.
C25_LoadConfigMerges ==
    /\ (ConfigFileSeen(FALSE) \/ (ConfigFileSeen(TRUE) /\ ~ConfigNotLoaded)) =>
          /\ \A field \in {"flagsDir", "outputFile"} :
                config[field] = IF field \in DOMAIN userConfig
                                THEN userConfig[field] ELSE BuiltIn[field]
          /\ \A field \in {"host", "projectId", "apiToken"} :
                config.posthog[field] = IF Sets("posthog", field)
                                        THEN userConfig.posthog[field]
                                        ELSE EnvOrBuiltIn(field)
          /\ \A field \in {"includeLocalConfigs", "namingConvention"} :
                config.generation[field] = IF Sets("generation", field)
                                           THEN userConfig.generation[field]
                                           ELSE BuiltIn.generation[field]
    /\ ConfigFileSeen(FALSE) => userConfig = NoUserConfig /\ ~ConfigNotLoaded
    /\ ConfigNotLoaded =>
          /\ pc = Uncaught
          /\ ConfigFileSeen(TRUE)
          /\ io[Len(io)].arg = "Error loading config file"
    /\ (\E k \in DOMAIN io : io[k].op = "import" /\ ~io[k].ok) => ConfigNotLoaded
    /\ (ConfigFileSeen(TRUE) /\ ~validateConfig(mergeConfig(DefaultConfig(env), userConfig)))
          => ConfigNotLoaded

\* the config file sets posthog.projectId alone: the host and the token come
\* from the environment, everything else from the built-in defaults
C25_Witness ==
    /\ command = "loadConfig"
    /\ pc = "resolved"
    /\ ConfigFileSeen(TRUE)
    /\ env.host = <<"e">>
    /\ Sets("posthog", "projectId") /\ ~Sets("posthog", "apiToken")
    /\ config.posthog.projectId = JsString(<<"u">>)
    /\ config.posthog.apiToken = JsString(<<"t">>)
    /\ config.posthog.host = JsString(<<"e">>)
    /\ config.flagsDir = JsString(<<"f", "f">>)

\* The local flag the development branch reads for the hook's last argument:
\* the property whose name is the argument with every hyphen as an underscore.
LocalKeysFor(flag) ==
    { k \in DOMAIN hook.LocalFeatureFlags :
        /\ Len(k) = Len(flag)
        /\ \A i \in 1..Len(flag) : k[i] = (IF flag[i] = "-" THEN "_" ELSE flag[i]) }

\* C26: every invocation of the hook returned by createUseFeatureFlagEnabled
\* calls the supplied PostHog hook exactly once, with the flag, in both modes;
\* in development mode the result is the enabled value of the local config
\* under the flag key with hyphens replaced by underscores, false when there is
\* none; otherwise it is the PostHog hook's value, false when that is undefined.
C26_HookCallsPostHogOnceAndSelects ==
    /\ Len(hook.posthogCalls) = hook.invocations
    /\ hook.invocations > 0 =>
        /\ hook.posthogCalls[hook.invocations] = hook.flag
        /\ hook.isDevelopment # Undefined =>
               hook.isDevMode = Payload(hook.isDevelopment)
        /\ hook.isDevMode /\ LocalKeysFor(hook.flag) = {} => hook.result = Bool(FALSE)
        /\ hook.isDevMode =>
               \A k \in LocalKeysFor(hook.flag) :
                   hook.result = Bool(hook.LocalFeatureFlags[k].enabled)
        /\ ~hook.isDevMode /\ hook.posthogEnabled = Undefined =>
               hook.result = Bool(FALSE)
        /\ ~hook.isDevMode /\ hook.posthogEnabled # Undefined =>
               hook.result = hook.posthogEnabled

\* In development mode a flag with two hyphens resolved to its local config,
\* enabled, although PostHog answered false; the PostHog hook was called.
C26_Witness ==
    /\ hook.invocations > 0
    /\ hook.isDevMode
    /\ hook.flag = <<"b", "-", "c", "-", "d">>
    /\ LocalKeysFor(hook.flag) # {}
    /\ hook.posthogEnabled = Bool(FALSE)
    /\ hook.result = Bool(TRUE)
    /\ Len(hook.posthogCalls) = hook.invocations

(***************************************************************************)
(* The typed positions of a flag: every value FLAG_SCHEMA declares a       *)
(* fundamental type for, with the path the validator prints for it.        *)
(***************************************************************************)
Site(path, value, type) == [path |-> path, value |-> value, type |-> type]

\* the sites among the own properties of an object: names maps a property
\* name to the type declared for it
SitesIn(prefix, value, names) ==
    { Site(prefix \o n, Get(value, n), names[n]) :
        n \in {m \in DOMAIN names : Kind(value) = "object" /\ HasOwn(value, m)} }

\* the elements of an array, each an object by its item schema
ElementSites(path, items) ==
    { Site(path \o "[" \o ToString(i - 1) \o "]", items[i], "object") :
        i \in 1..Len(items) }

VariantFieldTypes ==
    [key |-> "string", name |-> "string", rollout_percentage |-> "number"]

GroupFieldTypes ==
    [properties |-> "array", rollout_percentage |-> "number", variant |-> "string"]

GroupPropertyFieldTypes == [key |-> "string", operator |-> "string", type |-> "string"]

TypedSites ==
    LET filters == Field(flagData, "filters")
        multivariate == Field(filters, "multivariate")
        groups == ElementSites("filters.groups", RolloutArrays.groups.items)
        variants == ElementSites("filters.multivariate.variants",
                                 RolloutArrays.multivariate.items)
                        \cup ElementSites("variants", RolloutArrays.variants.items)
        properties == UNION { ElementSites(g.path \o ".properties",
                                           ArrayField(g.value, "properties")) : g \in groups }
    IN  SitesIn("", flagData,
                [ key |-> "string", name |-> "string", active |-> "boolean",
                  description |-> "string", filters |-> "object",
                  ensure_experience_continues |-> "boolean", variants |-> "array" ])
        \cup SitesIn("filters.", filters,
                     [groups |-> "array", multivariate |-> "object", payloads |-> "object"])
        \cup SitesIn("filters.multivariate.", multivariate, [variants |-> "array"])
        \cup groups \cup variants \cup properties
        \cup UNION { SitesIn(g.path \o ".", g.value, GroupFieldTypes) : g \in groups }
        \cup UNION { SitesIn(v.path \o ".", v.value, VariantFieldTypes) : v \in variants }
        \cup UNION { SitesIn(q.path \o ".", q.value, GroupPropertyFieldTypes)
                     : q \in properties }

\* the value is of the fundamental type, as JSON has it
HasType(value, type) == Kind(value) = type

WrongTypeSites == {s \in TypedSites : ~HasType(s.value, s.type)}

TypeText(type) ==
    CASE type = "string" -> "must be a string"
      [] type = "number" -> "must be a number"
      [] type = "boolean" -> "must be a boolean"
      [] type = "array" -> "must be an array"
      [] type = "object" -> "must be an object"

\* the entries of the thrown list whose subject is the path
ErrorsAt(path) == {i \in 1..Len(flagResult.errors) : flagResult.errors[i].subject = path}

\* the paths right below a site, as the validator would print them
PathsBelow(s) ==
    (IF Kind(s.value) = "object"
     THEN {s.path \o "." \o Payload(s.value)[i][1] : i \in 1..Len(Payload(s.value))}
     ELSE {})
    \cup (IF Kind(s.value) = "array"
          THEN {s.path \o "[" \o ToString(i - 1) \o "]" : i \in 1..Len(Payload(s.value))}
          ELSE {})

\* C27 as stated: a field of the wrong fundamental type is the subject of
\* exactly one violation, nothing below it is checked, and every other field
\* of the flag is still checked.
C27_Original ==
    (pc = "returned" /\ IsFlagObject) =>
        \A s \in WrongTypeSites :
            /\ Cardinality(ErrorsAt(s.path)) = 1
            /\ HasError(s.path, TypeText(s.type))
            /\ PathsBelow(s) \cap ErrorSubjects = {}
            /\ ExpectedSubjects \subseteq ErrorSubjects

\* C27, amended: a field of the wrong fundamental type is the subject of
\* exactly one type violation and of no length, pattern, range, enum, element
\* or sub-property violation; the one other violation it can have is
\* "Missing required field", which key, name and active get as well when
\* their value is null or undefined.  Every other field is still checked.
C27_WrongTypeStopsChecksOnField ==
    (pc = "returned" /\ IsFlagObject) =>
        \A s \in WrongTypeSites :
            /\ Cardinality({i \in ErrorsAt(s.path) :
                              flagResult.errors[i].text = TypeText(s.type)}) = 1
            /\ \A i \in ErrorsAt(s.path) :
                   \/ flagResult.errors[i].text = TypeText(s.type)
                   \/ /\ flagResult.errors[i].text = "Missing required field"
                      /\ s.path \in RequiredFields
                      /\ IsMissing(s.path)
            /\ (s.path \in RequiredFields /\ IsMissing(s.path))
                   => Cardinality(ErrorsAt(s.path)) = 2
            /\ ~(s.path \in RequiredFields /\ IsMissing(s.path))
                   => Cardinality(ErrorsAt(s.path)) = 1
            /\ PathsBelow(s) \cap ErrorSubjects = {}
            /\ ExpectedSubjects \subseteq ErrorSubjects

\* a group property whose type is a number, not one of the enum's strings,
\* got the type violation alone, while the key of the flag, an uppercase
\* letter, was reported too
C27_Witness ==
    /\ pc = "returned"
    /\ IsFlagObject
    /\ \E s \in WrongTypeSites :
           /\ s.path = "filters.groups[0].properties[3].type"
           /\ s.value = Num(1)
           /\ Cardinality(ErrorsAt(s.path)) = 1
    /\ "key" \in ErrorSubjects

\* the nested objects of the flag that have a schema with properties, each
\* with its path and the names that schema declares
NestedObjects ==
    LET filters == Field(flagData, "filters")
        multivariate == Field(filters, "multivariate")
        groups == ElementSites("filters.groups", RolloutArrays.groups.items)
        variants == ElementSites("filters.multivariate.variants",
                                 RolloutArrays.multivariate.items)
                        \cup ElementSites("variants", RolloutArrays.variants.items)
        properties == UNION { ElementSites(g.path \o ".properties",
                                           ArrayField(g.value, "properties")) : g \in groups }
        Nested(sites, declared) ==
            { [path |-> s.path, value |-> s.value, declared |-> declared] :
                s \in {t \in sites : Kind(t.value) = "object"} }
    IN  Nested({Site("filters", filters, "object")}, {"groups", "multivariate", "payloads"})
        \cup Nested({Site("filters.multivariate", multivariate, "object")}, {"variants"})
        \cup Nested(groups, DOMAIN GroupFieldTypes)
        \cup Nested(variants, DOMAIN VariantFieldTypes)
        \cup Nested(properties, DOMAIN GroupPropertyFieldTypes \cup {"value"})

\* the paths of the properties of nested objects that no schema declares
UndeclaredNested ==
    UNION { { o.path \o "." \o Payload(o.value)[i][1] :
                i \in {j \in 1..Len(Payload(o.value)) :
                          Payload(o.value)[j][1] \notin o.declared} }
            : o \in NestedObjects }

\* the names of the flag's own top-level properties
TopLevelNames == {Payload(flagData)[i][1] : i \in 1..Len(Payload(flagData))}

\* C28: a property of a nested object (filters, a filter group, a group
\* property, multivariate, a variant) that the nested schema does not declare
\* is never the subject of a violation, whatever its name; the declared
\* sub-properties beside it are still checked for type and range; and nothing
\* inside payloads is checked.
C28_NestedUndeclaredIgnored ==
    (pc = "returned" /\ IsFlagObject) =>
        /\ UndeclaredNested \cap ErrorSubjects = {}
        /\ \A i \in 1..Len(flagResult.errors) :
               flagResult.errors[i].text = "Unknown property"
                   => flagResult.errors[i].subject \in TopLevelNames
        /\ \A s \in WrongTypeSites : HasError(s.path, TypeText(s.type))
        /\ ExpectedSubjects \subseteq ErrorSubjects
        /\ LET payloads == Site("filters.payloads",
                                Field(Field(flagData, "filters"), "payloads"), "object")
           IN  /\ PathsBelow(payloads) \cap ErrorSubjects = {}
               /\ Kind(payloads.value) = "object" => payloads.path \notin ErrorSubjects

\* a flag whose filters, multivariate and variant each hold an undeclared
\* property, two of them named like members of Object.prototype, and whose
\* payloads holds a number under "key": the variant's rollout_percentage of -1
\* and the group's of 101 are the only violations
C28_Witness ==
    /\ pc = "returned"
    /\ IsFlagObject
    /\ { "filters.comment", "filters.multivariate.valueOf",
         "filters.multivariate.variants[0].constructor",
         "filters.multivariate.variants[0].weight" } \subseteq UndeclaredNested
    /\ Field(Field(flagData, "filters"), "payloads") = Obj(One("key", Num(1)))
    /\ ~HasOwn(flagData, "variants") \/ ArrayField(flagData, "variants") = <<>>
    /\ ErrorSubjects = { "filters.multivariate.variants[0].rollout_percentage",
                         "filters.groups[0].rollout_percentage" }

\* the create requests sent so far for the key, by position in requests
CreatesOf(key) ==
    {n \in 1..Len(requests) :
        requests[n].method = "POST" /\ Get(requests[n].body, "key") = key}

\* the flag files found that hold a flag object with the key
FilesDeclaring(key) ==
    {f \in 1..Len(files) :
        Kind(files[f].content) = "object" /\ Get(files[f].content, "key") = key}

\* the keys the flag files declare
DeclaredKeys ==
    {Get(files[f].content, "key") : f \in {g \in 1..Len(files) :
                                             Kind(files[g].content) = "object"}}

\* C29 as stated: within one syncFlags run at most one create call is issued
\* for any flag key, also when two files declare a key the remote list lacks.
C29_Original ==
    IsSync => \A key \in DeclaredKeys : Cardinality(CreatesOf(key)) <= 1

\* C29, amended: a run issues no create call for a key the fetched list
\* holds and at most one per file for a key it lacks, so at most one create
\* call per key when no two files declare the same key; two files with the
\* same absent key get a create call each, the list fetched at the start
\* being all that syncFlags consults.
C29_OneCreatePerFileOfAbsentKey ==
    IsSync =>
        \A key \in DeclaredKeys :
            /\ IdsOf(key) # {} => CreatesOf(key) = {}
            /\ Cardinality(CreatesOf(key)) <= Cardinality(FilesDeclaring(key))
            /\ Cardinality(FilesDeclaring(key)) <= 1 => Cardinality(CreatesOf(key)) <= 1
            /\ (/\ pc = "resolved"
                /\ IdsOf(key) = {}
                /\ \A f \in FilesDeclaring(key) : Done("validateFlagSchema", f, TRUE))
                   => Cardinality(CreatesOf(key)) = Cardinality(FilesDeclaring(key))

\* a run over two files that both declare the key "a", which the fetched
\* list lacks, has completed with two create calls for "a"
C29_Witness ==
    /\ IsSync
    /\ pc = "resolved"
    /\ allFlags = <<>>
    /\ Len(files) = 2
    /\ FilesDeclaring(Str(<<"a">>)) = {1, 2}
    /\ Cardinality(CreatesOf(Str(<<"a">>))) = 2

\* the property names of the generated FeatureFlags object, in order
FeatureFlagNames == [i \in 1..Len(written.FeatureFlags) |-> written.FeatureFlags[i].name]

\* the property names of the generated LocalFeatureFlags object, in order
LocalFeatureFlagNames ==
    [i \in 1..Len(written.LocalFeatureFlags) |-> written.LocalFeatureFlags[i].name]

NoTwoAlike(names) ==
    \A i \in 1..Len(names) : \A j \in 1..Len(names) : names[i] = names[j] => i = j

\* C30: under each naming convention two distinct schema-valid keys never get
\* the same property name in the generated FeatureFlags and LocalFeatureFlags
\* objects.
C30_Claim ==
    (pc = "returned" /\ written.ok /\ command = "generateTypeScriptContent") =>
        /\ NoTwoAlike(FeatureFlagNames)
        /\ NoTwoAlike(LocalFeatureFlagNames)

\* what holds of the names: under snake_case and SCREAMING_SNAKE_CASE two
\* distinct valid keys get distinct names
C30_SnakeNamesDistinct ==
    (/\ pc = "returned" /\ written.ok /\ command = "generateTypeScriptContent"
     /\ config.generation.namingConvention # "camelCase") =>
        /\ NoTwoAlike(FeatureFlagNames)
        /\ NoTwoAlike(LocalFeatureFlagNames)

====
